---------------------------- MODULE Spec2Model ----------------------------
(***************************************************************************)
(* Model of the MFHelper fund pipelines:                                   *)
(*   - daily_mf_report.py : the lump-sum (one year XIRR) pipeline, run on  *)
(*     a thread pool of 25 workers;                                        *)
(*   - mf_screener.py     : the rolling-metric screener, run sequentially. *)
(*                                                                         *)
(* Time.  A timestamp is an integer number of ticks, TicksPerDay ticks to  *)
(* the day.  NAV dates are midnights (multiples of TicksPerDay); the       *)
(* as-of instant is datetime.now(), which carries a time of day.  The      *)
(* calendar has 365-day years (no leap days).                              *)
(*                                                                         *)
(* Strings.  A scheme name is the set of the lower-case keywords it        *)
(* contains ("direct", "growth", "idcw", ...): the code only ever tests a  *)
(* name for substrings.  A date or price string of the upstream is a       *)
(* record [ok, v]: ok = FALSE is a string the parser cannot read.          *)
(***************************************************************************)
EXTENDS Integers, Sequences, FiniteSets, TLC

(***************************************************************************)
(* Bounds of the model.                                                    *)
(***************************************************************************)
MaxSchemes == 2      \* schemes in the upstream directory
batch_size == 1      \* page size of the scheme list (1000 in the code, scaled)
list_batch == 2      \* the same page size, where fetch_all_schemes runs alone
MaxListed == 4       \* schemes in the directory, where fetch_all_schemes runs alone
MaxCalls == 3        \* per-fund evaluations made against one benchmark
TicksPerDay == 2     \* resolution of the time of day
SmallLimit == 2      \* the configured SCHEME_LIMIT / --fund_limit, when set
MaxExtra == 2        \* rows drawn freely in the sanitizer's inputs
MaxPoints == 3       \* points of a price series drawn for a metric function
MaxWindow == 1       \* the --rolling_window drawn, in years
MaxSamples == 3      \* rolling samples drawn for the consistency score
MaxMonths == 13      \* the last month of a monthly return series drawn
MaxFund == 2         \* points of a fund series compared with the benchmark
MaxBench == 2        \* points of the benchmark series it is compared with
MaxColumn == 3       \* values of a column given to normalize_column
MaxRows == 3         \* rows of a frame given to calculate_final_score

(***************************************************************************)
(* Program constants.                                                      *)
(***************************************************************************)
max_workers == 25          \* ThreadPoolExecutor(max_workers=25)
STALE_DAYS == 5            \* timedelta(days=5) in process_scheme
MIN_MONTHS == 5            \* months < 5 in process_scheme
TOP_OVERALL == 200         \* df.head(200)
MIN_POINTS == 60           \* len(navs) < 60 in fetch_full_nav_history
MIN_MONTHLY == 12          \* len(fund_monthly) < 12 in the screener's main
NAV_TIMEOUT == 30          \* session.get(url, timeout=30) in the screener
RETRY_TOTAL == 3           \* Retry(total=3, ...) in create_session
DAYS_PER_YEAR == 365       \* timedelta(days=lookback_years * 365)
OVERFETCH == 10            \* candidates[:fund_limit * 10]
MIN_ELAPSED_DAYS == 300    \* actual_days < 300 in the rolling windows
MIN_ALIGNED == 12          \* len(aligned) < 12 in calculate_beta

NoTimeout == 0             \* requests' timeout=None: wait for ever
NoLimit == 0               \* scheme_limit unset (None)

(***************************************************************************)
(* Generic helpers.                                                        *)
(***************************************************************************)
Range(f) == {f[i] : i \in DOMAIN f}

Min2(a, b) == IF a <= b THEN a ELSE b

Take(seq, n) == SubSeq(seq, 1, Min2(n, Len(seq)))

RECURSIVE Pow(_, _)
Pow(b, e) == IF e = 0 THEN 1 ELSE b * Pow(b, e - 1)

RECURSIVE GCD(_, _)
GCD(a, b) == IF b = 0 THEN a ELSE GCD(b, a % b)

(***************************************************************************)
(* Calendar: 365-day years, day 0 = 1 January of year 0.                   *)
(***************************************************************************)
MonthStarts == <<0, 31, 59, 90, 120, 151, 181, 212, 243, 273, 304, 334>>

DayOf(t) == t \div TicksPerDay                 \* the calendar day of a timestamp
Midnight(day) == day * TicksPerDay             \* the timestamp of a date
Days(n) == n * TicksPerDay                     \* timedelta(days=n)
DateYear(t) == DayOf(t) \div 365
DayOfYear(t) == DayOf(t) % 365
DateMonth(t) == CHOOSE m \in 1..12 :
                    /\ MonthStarts[m] <= DayOfYear(t)
                    /\ (m = 12 \/ DayOfYear(t) < MonthStarts[m + 1])
DateDay(t) == DayOfYear(t) - MonthStarts[DateMonth(t)] + 1
YearsBefore(t, n) == t - n * Days(365)         \* t - pd.DateOffset(years=n)
YearsAfter(t, n) == t + n * Days(365)          \* t + pd.DateOffset(years=n)
DaysBetween(a, b) == (b - a) \div TicksPerDay  \* (b - a).days, for a <= b

(***************************************************************************)
(* Upstream rows: {"date": "dd-mm-yyyy", "nav": "12.3456"}.                *)
(***************************************************************************)
Row(day, nav) == [date |-> [ok |-> TRUE, v |-> Midnight(day)],
                  nav  |-> [ok |-> TRUE, v |-> nav]]
BadDateRow(nav) == [date |-> [ok |-> FALSE, v |-> 0],
                    nav  |-> [ok |-> TRUE, v |-> nav]]
BadNavRow(day) == [date |-> [ok |-> TRUE, v |-> Midnight(day)],
                   nav  |-> [ok |-> FALSE, v |-> 0]]

\* a parsed point of a frame
Point(r) == [date |-> r.date.v, nav |-> r.nav.v]

\* navs.sort_values("date"): the points in date order, equal dates in the
\* order they had.  rank[i] is the place of seq[i] in the sorted frame.
SortByDate(seq) ==
    LET n == Len(seq)
        rank == [i \in 1..n |->
                    Cardinality({j \in 1..n : \/ seq[j].date < seq[i].date
                                              \/ seq[j].date = seq[i].date /\ j < i}) + 1]
        place == IF rank = <<>> THEN <<>> ELSE rank     \* rank, as a tuple
    IN  [k \in 1..n |-> seq[CHOOSE i \in 1..n : place[i] = k]]

\* pd.to_datetime(navs["date"], dayfirst=True) raises on a string that is no date
DatesParse(rows) == \A i \in DOMAIN rows : rows[i].date.ok

\* pd.to_numeric(errors="coerce"), dropna(subset=["nav"]), navs[navs["nav"] > 0]
NumericPositive(rows) ==
    SelectSeq(rows, LAMBDA r : r.nav.ok /\ r.nav.v > 0)

(***************************************************************************)
(* daily_mf_report.py: the lump-sum pipeline's per-scheme functions.       *)
(***************************************************************************)
\* What the upstream answers to GET /mf/<code>.
\*   kind "ok"       : a JSON body [data |-> rows, meta |-> ...]
\*   kind "neterr"   : the connection fails (requests raises)
\*   kind "http5xx", "http4xx" : an error status (raise_for_status raises)
\*   kind "badjson"  : the body is no JSON (resp.json() raises)
\*   kind "noresp"   : the upstream never answers
FetchRaises(resp) == resp.kind \in {"neterr", "http5xx", "http4xx", "badjson"}

\* the one-year window of fetch_nav_history, before the sort
LumpsumWindow(rows, as_of) ==
    LET kept == NumericPositive(rows)
        pts == [i \in DOMAIN kept |-> Point(kept[i])]
    IN  SelectSeq(pts, LAMBDA p : p.date >= YearsBefore(as_of, 1) /\ p.date <= as_of)

\* the frame fetch_nav_history holds at its last line
LumpsumSeries(rows, as_of) == SortByDate(LumpsumWindow(rows, as_of))

fetch_nav_history(resp, as_of) ==
    IF FetchRaises(resp) THEN [kind |-> "raise"]
    ELSE IF resp.data = <<>> THEN [kind |-> "none"]
    ELSE IF ~DatesParse(resp.data) THEN [kind |-> "raise"]
    ELSE LET navs == LumpsumSeries(resp.data, as_of)
         IN  IF navs = <<>> THEN [kind |-> "none"]
             ELSE [kind |-> "data", meta |-> resp.meta,
                   start_date |-> navs[1].date, start_nav |-> navs[1].nav,
                   end_date |-> navs[Len(navs)].date, end_nav |-> navs[Len(navs)].nav]

\* An annualized return ((end/start) ** (365.25/days)) - 1 is kept as the triple
\* it is computed from; None is the missing value.
None == [none |-> TRUE]
IsNone(x) == x = None

\* a mutant: only a negative number of days is turned away
DegenerateNegativeOnly(days_diff) == days_diff < 0

\* if days_diff <= 0: return None
Degenerate(days_diff) == days_diff <= 0

compute_lumpsum_xirr(nav_data) ==
    LET days_diff == DaysBetween(nav_data.start_date, nav_data.end_date)
    IN  IF Degenerate(days_diff) THEN None
        ELSE [none |-> FALSE, e |-> nav_data.end_nav, s |-> nav_data.start_nav,
              d |-> days_diff]

\* x < y for two annualized returns: (ex/sx)^(1/dx) < (ey/sy)^(1/dy), decided
\* in integers by raising both sides to the power dx*dy/gcd
XirrLess(x, y) ==
    LET g == GCD(x.d, y.d)
        px == y.d \div g
        py == x.d \div g
    IN  Pow(x.e, px) * Pow(y.s, py) < Pow(y.e, py) * Pow(x.s, px)

\* months between the first and last date of the window, rounded up
MonthSpan(start_date, end_date) ==
    LET months == (DateYear(end_date) - DateYear(start_date)) * 12
                  + (DateMonth(end_date) - DateMonth(start_date))
    IN  IF DateDay(end_date) > DateDay(start_date) THEN months + 1 ELSE months

\* The record process_scheme returns (the fields the ranking reads)
SchemeRow(scheme, nav_data) ==
    [schemeCode |-> scheme.schemeCode,
     xirr |-> compute_lumpsum_xirr(nav_data),
     months |-> MonthSpan(nav_data.start_date, nav_data.end_date),
     scheme_category |-> nav_data.meta.scheme_category,
     isin_growth |-> nav_data.meta.isin_growth,
     isin_div_reinvestment |-> nav_data.meta.isin_div_reinvestment,
     latest_nav_date |-> nav_data.end_date]

\* latest_date < (as_of - timedelta(days=5)): the 5 is written in the code;
\* CONFIG["reporting"]["staleness_days"] is read nowhere
IsStale(latest_date, as_of) == latest_date < as_of - Days(STALE_DAYS)

\* the body of process_scheme's try block, given what the fetch returned
ProcessFetched(scheme, nav_data, as_of) ==
    IF nav_data.kind = "none" THEN [kind |-> "none", why |-> "no_data"]
    ELSE IF IsStale(nav_data.end_date, as_of)
         THEN [kind |-> "none", why |-> "stale"]
    ELSE IF nav_data.meta.isin_growth = "" /\ nav_data.meta.isin_div_reinvestment = ""
         THEN [kind |-> "none", why |-> "no_isin"]
    ELSE IF MonthSpan(nav_data.start_date, nav_data.end_date) < MIN_MONTHS
         THEN [kind |-> "none", why |-> "short"]
    ELSE [kind |-> "row", row |-> SchemeRow(scheme, nav_data)]

\* except Exception as e: logging.error(...); return None
ProcessSchemeExcept(why) == [kind |-> "none", why |-> why]

\* a mutant: the name filter looks for "idcw" only
IsIdcwNameOnly(name) == "idcw" \in name

\* the name filter at the head of process_scheme
IsIdcwName(name) == "idcw" \in name \/ "income distribution" \in name

\* process_scheme(session, scheme, as_of) once the fetch has answered `resp`:
\*   [kind |-> "row", row], [kind |-> "none", why] or [kind |-> "raise"]
process_scheme(scheme, resp, as_of) ==
    LET nav_data == fetch_nav_history(resp, as_of)
    IN  IF nav_data.kind = "raise"
        THEN ProcessSchemeExcept(IF FetchRaises(resp) THEN "fetch_error" ELSE "parse_error")
        ELSE ProcessFetched(scheme, nav_data, as_of)

(***************************************************************************)
(* The upstream: the scheme directory and the answers to a NAV request.    *)
(***************************************************************************)
AsOfDay == 3000                                 \* the day the run is made
as_of == Midnight(AsOfDay) + 1                  \* datetime.now(): after midnight

NameDirectGrowth == {"direct", "growth"}
NameDirectIdcw == {"direct", "idcw"}
NameRegularGrowth == {"regular", "growth"}

\* the shapes of a directory entry: its name, and whether it has a schemeCode
EntryKinds ==
    { [schemeName |-> NameDirectGrowth, hasCode |-> TRUE],
      [schemeName |-> NameDirectIdcw, hasCode |-> TRUE],
      [schemeName |-> NameRegularGrowth, hasCode |-> TRUE],
      [schemeName |-> NameDirectGrowth, hasCode |-> FALSE] }

Entry(code, k) ==
    [schemeCode |-> code, schemeName |-> k.schemeName, hasCode |-> k.hasCode]

Directories ==
    UNION { { [i \in 1..n |-> Entry(i, f[i])] : f \in [1..n -> EntryKinds] }
            : n \in 1..MaxSchemes }

\* a category is the set of the lower-case keywords its name contains
EquityCategory == {"equity scheme", "large cap fund"}
DebtCategory == {"debt scheme", "liquid fund", "debt"}

MetaEquity == [scheme_category |-> EquityCategory, isin_growth |-> "INF1",
               isin_div_reinvestment |-> ""]
MetaDebt == [scheme_category |-> DebtCategory, isin_growth |-> "INF2",
             isin_div_reinvestment |-> ""]
MetaNoIsin == [scheme_category |-> EquityCategory, isin_growth |-> "",
               isin_div_reinvestment |-> ""]

\* NAV histories of the last year, newest row first as the API sends them
YearHigh == <<Row(AsOfDay, 12), Row(AsOfDay - 364, 10)>>
YearLow == <<Row(AsOfDay, 11), Row(AsOfDay - 364, 10)>>
HalfYear == <<Row(AsOfDay, 11), Row(AsOfDay - 182, 10)>>
YearDirty == <<Row(AsOfDay + 3, 50), Row(AsOfDay, 12), BadNavRow(AsOfDay - 100),
               Row(AsOfDay - 200, 0), Row(AsOfDay - 364, 10), Row(AsOfDay - 400, 5)>>
StaleYear == <<Row(AsOfDay - 10, 12), Row(AsOfDay - 364, 10)>>
TwoMonths == <<Row(AsOfDay, 12), Row(AsOfDay - 60, 10)>>
OneDay == <<Row(AsOfDay, 12)>>
LongAgo == <<Row(AsOfDay - 500, 10)>>
WithBadDate == <<Row(AsOfDay, 12), BadDateRow(11), Row(AsOfDay - 364, 10)>>

OkResponse(data, meta) == [kind |-> "ok", data |-> data, meta |-> meta]
FailResponse(kind) == [kind |-> kind, data |-> <<>>, meta |-> MetaEquity]

LumpsumResponses ==
    { OkResponse(d, MetaEquity) :
        d \in {YearHigh, YearLow, HalfYear, YearDirty, StaleYear, TwoMonths,
               OneDay, LongAgo, WithBadDate, <<>>} }
    \cup { OkResponse(YearHigh, MetaDebt), OkResponse(YearHigh, MetaNoIsin) }
    \cup { FailResponse(k) : k \in {"neterr", "http5xx", "http4xx", "badjson", "noresp"} }

(***************************************************************************)
(* State.                                                                  *)
(***************************************************************************)
VARIABLES
    pipeline,      \* "lumpsum" (daily_mf_report.main) or "screener" (mf_screener.main)
    pc,            \* where main is
    directory,     \* the upstream's scheme list
    scheme_limit,  \* CONFIG["reporting"]["scheme_limit"] / args.fund_limit
    offset,        \* fetch_all_schemes: the next offset
    all_schemes,   \* fetch_all_schemes: the entries gathered
    requested,     \* history: the offsets requested, in order
    list_failed,   \* history: a page request raised
    schemes,       \* schemes_to_process / candidates
    task,          \* per directory entry: the state of its task and its outcome
    fetches,       \* history: per entry, the HTTP requests sent for its NAV history
    results,       \* main's results list
    table,         \* the ranked table: [made, rows]
    benchmark,     \* the screener's benchmark_navs: "unfetched", "none" or "series"
    san_in,        \* the sanitizers alone: the raw rows and the as-of instant
    san_out,       \* the sanitizers alone: what each function made of san_in
    calc_in,       \* a metric or scoring function alone: its arguments
    calc_out       \* a metric or scoring function alone: what it returned

vars == <<pipeline, pc, directory, scheme_limit, offset, all_schemes,
          requested, list_failed, schemes, task, fetches, results, table,
          benchmark, san_in, san_out, calc_in, calc_out>>

sanvars == <<san_in, san_out, calc_in, calc_out>>

NoInput == [rows |-> <<>>, as_of |-> 0, lookback |-> 0]
Unset == [kind |-> "unset"]
NoOutput == [lumpsum |-> Unset, rolling |-> Unset]
NoArguments == [fn |-> "none"]

Codes == 1..MaxSchemes
NoOutcome == [kind |-> "unset"]
NoAnswer == [points |-> 0]
IdleTask == [st |-> "idle", out |-> NoOutcome, timeout |-> NoTimeout,
             answer |-> NoAnswer]
NoTable == [made |-> FALSE, rows |-> <<>>]

Submitted == {schemes[i].schemeCode : i \in DOMAIN schemes}
Finished(st) == st \in {"done", "collected"}

(***************************************************************************)
(* fetch_all_schemes (the same loop in both files), one page per step.     *)
(***************************************************************************)
\* batch_size = 1000 in fetch_all_schemes, at the scale of the run modelled
BatchSize == IF pipeline = "list" THEN list_batch ELSE batch_size

\* what the upstream answers to GET /mf?limit=<batch_size>&offset=<off>
Page(off) == SubSeq(directory, off + 1, Min2(off + BatchSize, Len(directory)))

\* a mutant: the offset is not moved on after a full page
NextOffsetSame(off) == off

\* offset += batch_size
NextOffset(off) == off + BatchSize

\* where main goes once the scheme list is returned
AfterList ==
    CASE pipeline = "lumpsum"  -> "submit"
      [] pipeline = "screener" -> "candidates"
      [] pipeline = "list"     -> "returned"      \* fetch_all_schemes alone

\* a mutant: a failed page throws away the pages gathered before it
SchemesAfterErrorNone(gathered) == <<>>

\* except Exception: logging.error(...); break -- then return all_schemes
SchemesAfterError(gathered) == gathered

FetchPage ==
    /\ pc = "list"
    /\ requested' = Append(requested, offset)
    /\ \/ \* session.get / raise_for_status / json raised: logged, break
          /\ list_failed' = TRUE
          /\ all_schemes' = SchemesAfterError(all_schemes)
          /\ pc' = AfterList
          /\ UNCHANGED offset
       \/ \* an empty page: break
          /\ Page(offset) = <<>>
          /\ pc' = AfterList
          /\ UNCHANGED <<offset, all_schemes, list_failed>>
       \/ \* a short page: extend, break
          /\ Page(offset) # <<>>
          /\ Len(Page(offset)) < BatchSize
          /\ all_schemes' = all_schemes \o Page(offset)
          /\ pc' = AfterList
          /\ UNCHANGED <<offset, list_failed>>
       \/ \* a full page: extend, go on
          /\ Len(Page(offset)) = BatchSize
          /\ all_schemes' = all_schemes \o Page(offset)
          /\ offset' = NextOffset(offset)
          /\ UNCHANGED <<pc, list_failed>>
    /\ UNCHANGED <<pipeline, directory, scheme_limit, schemes, task,
                   fetches, results, table, sanvars, benchmark>>

(***************************************************************************)
(* daily_mf_report.main                                                    *)
(***************************************************************************)
\* schemes = [s for s in schemes if "regular" not in s['schemeName'].lower()]
NotRegular(list) == SelectSeq(list, LAMBDA s : "regular" \notin s.schemeName)

\* limit = int(limit_val) if limit_val else len(schemes); schemes[:limit]
SchemesToProcess(list, limit_val) ==
    IF limit_val = NoLimit THEN NotRegular(list)
    ELSE Take(NotRegular(list), limit_val)

LumpSubmit ==
    /\ pipeline = "lumpsum"
    /\ pc = "submit"
    /\ schemes' = SchemesToProcess(all_schemes, scheme_limit)
    /\ task' = [c \in Codes |->
                  IF \E i \in DOMAIN schemes' : schemes'[i].schemeCode = c
                  THEN [IdleTask EXCEPT !.st = "pending"] ELSE IdleTask]
    /\ pc' = "pool"
    /\ UNCHANGED <<pipeline, directory, scheme_limit, offset, all_schemes,
                   requested, list_failed, fetches, results, table, sanvars, benchmark>>

Running == {c \in Codes : task[c].st \in {"fetching", "blocked"}}

\* A worker takes a pending task and runs process_scheme up to the NAV request.
\* scheme['schemeCode'] is read before the try block; an IDCW name returns None
\* without a request; fetch_nav_history sends session.get(url) with no timeout.
TaskStart(c) ==
    /\ pipeline = "lumpsum"
    /\ pc = "pool"
    /\ task[c].st = "pending"
    /\ Cardinality(Running) < max_workers
    /\ IF ~directory[c].hasCode
       THEN /\ task' = [task EXCEPT ![c].st = "done", ![c].out = [kind |-> "raise"]]
            /\ UNCHANGED fetches
       ELSE IF IsIdcwName(directory[c].schemeName)
       THEN /\ task' = [task EXCEPT ![c].st = "done",
                                    ![c].out = [kind |-> "none", why |-> "idcw"]]
            /\ UNCHANGED fetches
       ELSE /\ task' = [task EXCEPT ![c].st = "fetching", ![c].timeout = NoTimeout]
            /\ fetches' = [fetches EXCEPT ![c] = @ + 1]
    /\ UNCHANGED <<pipeline, pc, directory, scheme_limit, offset, all_schemes,
                   requested, list_failed, schemes, results, table, sanvars, benchmark>>

\* The upstream answers the request and process_scheme runs to its return.
TaskFetchReturn(c) ==
    /\ pipeline = "lumpsum"
    /\ task[c].st = "fetching"
    /\ \E resp \in LumpsumResponses :
          /\ resp.kind # "noresp"
          /\ task' = [task EXCEPT ![c].st = "done",
                                  ![c].out = process_scheme(directory[c], resp, as_of)]
    /\ UNCHANGED <<pipeline, pc, directory, scheme_limit, offset, all_schemes,
                   requested, list_failed, schemes, fetches, results, table, sanvars, benchmark>>

\* The upstream never answers: with no timeout the worker waits for ever.
TaskFetchBlocks(c) ==
    /\ pipeline = "lumpsum"
    /\ task[c].st = "fetching"
    /\ task[c].timeout = NoTimeout
    /\ task' = [task EXCEPT ![c].st = "blocked"]
    /\ UNCHANGED <<pipeline, pc, directory, scheme_limit, offset, all_schemes,
                   requested, list_failed, schemes, fetches, results, table, sanvars, benchmark>>

\* a mutant: main calls future.result() outside any try block
FutureRaisePropagates(out) == out.kind = "raise"

\* try: data = future.result() ... except Exception: pass
\* TRUE when the exception of a future leaves the as_completed loop
FutureRaiseEscapes(out) == FALSE

\* as_completed yields a finished future; main appends its row, if any
\* a mutant: the row of a future is appended twice
AppendResultTwice(list, data) == Append(Append(list, data), data)

\* results.append(data), in the thread of main
AppendResult(list, data) == Append(list, data)

Collect(c) ==
    /\ pipeline = "lumpsum"
    /\ pc = "pool"
    /\ task[c].st = "done"
    /\ task' = [task EXCEPT ![c].st = "collected"]
    /\ IF FutureRaiseEscapes(task[c].out)
       THEN pc' = "crashed" /\ UNCHANGED results
       ELSE /\ results' = IF task[c].out.kind = "row"
                          THEN AppendResult(results, task[c].out.row) ELSE results
            /\ UNCHANGED pc
    /\ UNCHANGED <<pipeline, directory, scheme_limit, offset, all_schemes,
                   requested, list_failed, schemes, fetches, table, sanvars, benchmark>>

\* a mutant: the loop is left at the first collected future
DrainedAtFirst == \E c \in Submitted : task[c].st = "collected"

\* as_completed is exhausted and the with block has joined every worker
Drained == \A c \in Submitted : task[c].st = "collected"

ExitPool ==
    /\ pipeline = "lumpsum"
    /\ pc = "pool"
    /\ Drained
    /\ pc' = "persist"
    /\ UNCHANGED <<pipeline, directory, scheme_limit, offset, all_schemes,
                   requested, list_failed, schemes, task, fetches, results, table, sanvars, benchmark>>

RECURSIVE InsertByCode(_, _)
InsertByCode(x, sorted) ==
    IF sorted = <<>> THEN <<x>>
    ELSE IF x.schemeCode < Head(sorted).schemeCode THEN <<x>> \o sorted
         ELSE <<Head(sorted)>> \o InsertByCode(x, Tail(sorted))

RECURSIVE SortByCode(_)
\* results.sort(key=lambda x: int(x['schemeCode']))
SortByCode(seq) ==
    IF seq = <<>> THEN <<>>
    ELSE InsertByCode(seq[Len(seq)], SortByCode(SubSeq(seq, 1, Len(seq) - 1)))

\* The persistence block: the output directory is made, results is sorted by
\* scheme code, the chunks are written.  An exception anywhere in the block is
\* logged and main goes on: when os.makedirs raises, the sort has not run.
Persist ==
    /\ pipeline = "lumpsum"
    /\ pc = "persist"
    /\ \/ \* the directory is there: results.sort(...) runs
          results' = SortByCode(results)
       \/ \* os.makedirs(output_dir) raises: the block is left before the sort
          UNCHANGED results
    /\ pc' = "rank"
    /\ UNCHANGED <<pipeline, directory, scheme_limit, offset, all_schemes,
                   requested, list_failed, schemes, task, fetches, table, sanvars, benchmark>>

ExcludeKeywords == {"debt", "elss", "idf", "income"}

\* a mutant: only the first row of the frame is ranked
RankableFirstOnly(rows) == Take(rows, 1)

\* df.dropna(subset=['xirr']) and the category exclusion
Rankable(rows) ==
    SelectSeq(rows, LAMBDA r : /\ ~IsNone(r.xirr)
                               /\ r.scheme_category \cap ExcludeKeywords = {})

RECURSIVE InsertByXirrDesc(_, _)
InsertByXirrDesc(x, sorted) ==
    IF sorted = <<>> THEN <<x>>
    ELSE IF XirrLess(Head(sorted).xirr, x.xirr) THEN <<x>> \o sorted
         ELSE <<Head(sorted)>> \o InsertByXirrDesc(x, Tail(sorted))

RECURSIVE SortByXirrDesc(_)
\* df.sort_values(by='xirr', ascending=False)
SortByXirrDesc(seq) ==
    IF seq = <<>> THEN <<>>
    ELSE InsertByXirrDesc(seq[Len(seq)], SortByXirrDesc(SubSeq(seq, 1, Len(seq) - 1)))

\* top_200_records
LumpsumRanking(rows) == Take(SortByXirrDesc(Rankable(rows)), TOP_OVERALL)

LumpRank ==
    /\ pipeline = "lumpsum"
    /\ pc = "rank"
    /\ IF results = <<>>
       THEN /\ pc' = "exit_empty"       \* "No scheme data fetched. Exiting."
            /\ UNCHANGED table
       ELSE /\ table' = [made |-> TRUE, rows |-> LumpsumRanking(results)]
            /\ pc' = "done"
    /\ UNCHANGED <<pipeline, directory, scheme_limit, offset, all_schemes,
                   requested, list_failed, schemes, task, fetches, results, sanvars, benchmark>>

\* what a run reports of its batch: "Finished processing. Total results: n"
\* (daily_mf_report), "total_funds": len(results) (mf_screener)
RunSummary == [total_results |-> Len(results)]

LumpNext ==
    \/ LumpSubmit
    \/ \E c \in Codes : TaskStart(c)
    \/ \E c \in Codes : TaskFetchReturn(c)
    \/ \E c \in Codes : TaskFetchBlocks(c)
    \/ \E c \in Codes : Collect(c)
    \/ ExitPool
    \/ Persist
    \/ LumpRank

(***************************************************************************)
(* mf_screener.py: the rolling-metric pipeline's per-fund functions.       *)
(***************************************************************************)
lookback_years == 5        \* --lookback, default 5

\* Retry(total=3, status_forcelist=[500, 502, 503, 504]) mounted on the session:
\* urllib3 sends the request again after a connection error, a read timeout or
\* one of the listed statuses
Retriable(resp) == resp.kind \in {"neterr", "http5xx", "noresp"}

\* the frame of fetch_full_nav_history before its length test: numeric and
\* positive prices, sorted by date, not older than now - lookback * 365 days
RollingSeries(rows, now, lookback) ==
    LET kept == NumericPositive(rows)
        pts == SortByDate([i \in DOMAIN kept |-> Point(kept[i])])
    IN  SelectSeq(pts, LAMBDA p : p.date >= now - Days(lookback * DAYS_PER_YEAR))

NoMeta == [scheme_category |-> {}, isin_growth |-> "", isin_div_reinvestment |-> ""]
NothingFetched == [kind |-> "ret", has_navs |-> FALSE, navs |-> <<>>,
                   has_meta |-> FALSE, meta |-> NoMeta, error |-> FALSE]

\* fetch_full_nav_history(session, scheme_code, lookback_years), given the
\* answer that ends the request:  return None, None / None, meta / navs, meta,
\* or an exception that leaves the function (kind "raise").  error tells the
\* except branch ("Error fetching NAV for ...") from the empty body.
fetch_full_nav_history(resp, now, lookback) ==
    IF resp.kind # "ok" THEN [NothingFetched EXCEPT !.error = TRUE]
    ELSE IF resp.data = <<>> THEN NothingFetched
    ELSE IF ~DatesParse(resp.data) THEN [kind |-> "raise"]
    ELSE LET navs == RollingSeries(resp.data, now, lookback)
         IN  IF Len(navs) < MIN_POINTS
             THEN [kind |-> "ret", has_navs |-> FALSE, navs |-> <<>>,
                   has_meta |-> TRUE, meta |-> resp.meta, error |-> FALSE]
             ELSE [kind |-> "ret", has_navs |-> TRUE, navs |-> navs,
                   has_meta |-> TRUE, meta |-> resp.meta, error |-> FALSE]

MonthKey(t) == DateYear(t) * 12 + DateMonth(t)

\* df["nav"].resample("ME").last().dropna(): the last price of each month
MonthlyLast(navs) ==
    LET tagged == [i \in DOMAIN navs |->
                     [p |-> navs[i],
                      last |-> (i = Len(navs)
                                \/ MonthKey(navs[i + 1].date) # MonthKey(navs[i].date))]]
        ends == SelectSeq(tagged, LAMBDA x : x.last)
    IN  [i \in DOMAIN ends |-> ends[i].p]

\* monthly.pct_change().dropna(): a return is kept as the two prices it is
\* the ratio of, last / prev - 1
compute_monthly_returns(navs) ==
    LET monthly == MonthlyLast(navs)
    IN  [i \in 1..(Len(monthly) - 1) |->
           [month |-> MonthKey(monthly[i + 1].date),
            prev |-> monthly[i].nav, last |-> monthly[i + 1].nav]]

(***************************************************************************)
(* Scoring: normalize_column and calculate_final_score.  A metric is an    *)
(* integer (hundredths), a normalised value the fraction [num, den].       *)
(***************************************************************************)
Metrics == <<"rolling_consistency", "sharpe", "upside_capture", "downside_capture",
             "benchmark_outperf", "beta_stability", "ter">>
Inverted == {"downside_capture", "ter"}

\* a mutant: the weight of the expense ratio doubled
WeightsOverweight ==
    [rolling_consistency |-> 25, sharpe |-> 20, upside_capture |-> 15,
     downside_capture |-> 15, benchmark_outperf |-> 10, beta_stability |-> 5,
     ter |-> 20]

\* DEFAULT_WEIGHTS, in hundredths
DEFAULT_WEIGHTS ==
    [rolling_consistency |-> 25, sharpe |-> 20, upside_capture |-> 15,
     downside_capture |-> 15, benchmark_outperf |-> 10, beta_stability |-> 5,
     ter |-> 10]

\* the fraction num / den (den > 0) in lowest terms
Frac(num, den) == [num |-> num \div GCD(num, den), den |-> den \div GCD(num, den)]

ColMin(col) == CHOOSE v \in Range(col) : \A w \in Range(col) : v <= w
ColMax(col) == CHOOSE v \in Range(col) : \A w \in Range(col) : v >= w

\* a mutant: invert leaves the column as it is
ComplementNone(part, whole) == part

\* normed = 1 - normed, for normed = part / whole
Complement(part, whole) == whole - part

normalize_column(col, invert) ==
    LET mn == ColMin(col)
        mx == ColMax(col)
    IN  IF mx = mn THEN [i \in DOMAIN col |-> [num |-> 1, den |-> 2]]
        ELSE [i \in DOMAIN col |->
                Frac(IF invert THEN Complement(col[i] - mn, mx - mn) ELSE col[i] - mn,
                     mx - mn)]

\* a mutant: the assets under management are added to every metric
ColumnPlusAum(rows, m) == [i \in DOMAIN rows |-> rows[i][m] + rows[i].aum]

\* df["rolling_consistency"], df["sharpe"], ...: the column of one metric
Column(rows, m) == [i \in DOMAIN rows |-> rows[i][m]]
Normed(rows, m) == normalize_column(Column(rows, m), m \in Inverted)

RECURSIVE WeightedSum(_, _, _)
\* sum over the metrics k..7 of weight * normalised value of row i, a fraction
WeightedSum(rows, i, k) ==
    IF k > Len(Metrics) THEN [num |-> 0, den |-> 1]
    ELSE LET rest == WeightedSum(rows, i, k + 1)
             n == Normed(rows, Metrics[k])[i]
             w == DEFAULT_WEIGHTS[Metrics[k]]
             num == w * n.num * rest.den + rest.num * n.den
             den == n.den * rest.den
             g == GCD(num, den)
         IN  [num |-> num \div g, den |-> den \div g]

\* a < b for two fractions with positive denominators
FracLess(a, b) == a.num * b.den < b.num * a.den

\* the orders in which n rows can be laid out
Orderings(n) == {p \in [1..n -> 1..n] : \A i, j \in 1..n : p[i] = p[j] => i = j}

\* ascending=False: no row is followed by one of a greater score
DescendingOrder(seq, p) ==
    \A i \in 1..(Len(seq) - 1) :
        ~FracLess(seq[p[i]].final_score, seq[p[i + 1]].final_score)

\* df.sort_values("final_score", ascending=False).reset_index(drop=True): kind
\* is left at its default, "quicksort", which is not a stable sort, so the
\* rows of equal score come out in an order the call does not fix.  The
\* frames the call can return.
SortByScoreDesc(seq) ==
    { [i \in 1..Len(seq) |-> seq[p[i]]] :
        p \in {q \in Orderings(Len(seq)) : DescendingOrder(seq, q)} }

\* the weighted final score of every row, in hundredths
Scored(rows) ==
    [i \in DOMAIN rows |-> [row |-> rows[i], final_score |-> WeightedSum(rows, i, 1)]]

\* the frames calculate_final_score can return
calculate_final_score(rows) == SortByScoreDesc(Scored(rows))

(***************************************************************************)
(* mf_screener.main                                                        *)
(***************************************************************************)
\* n weekly prices ending on day `last`, rising from `base`
Weekly(n, last, base) == [i \in 1..n |-> Row(last - 7 * (n - i), base + i)]

\* n daily prices ending on day `last`
Daily(n, last, base) == [i \in 1..n |-> Row(last - (n - i), base + i)]

SixtyWeeks == Weekly(MIN_POINTS, AsOfDay, 100)
FortyWeeks == Weekly(MIN_POINTS - 20, AsOfDay, 100)
SixtyDays == Daily(MIN_POINTS, AsOfDay, 100)
SixtyWeeksAndTomorrow == <<Row(AsOfDay + 1, 500)>> \o SixtyWeeks
SixtyWeeksBadDate == SixtyWeeks \o <<BadDateRow(100)>>
FiftyNineWeeksAndTomorrow == <<Row(AsOfDay + 1, 500)>> \o Weekly(MIN_POINTS - 1, AsOfDay, 100)

ScreenerResponses ==
    { OkResponse(d, MetaEquity) :
        d \in {SixtyWeeks, FortyWeeks, SixtyDays, SixtyWeeksAndTomorrow,
               SixtyWeeksBadDate, FiftyNineWeeksAndTomorrow, <<>>} }
    \cup { OkResponse(SixtyWeeks, MetaDebt) }
    \cup { FailResponse(k) : k \in {"neterr", "http5xx", "http4xx", "badjson", "noresp"} }

\* fetch_full_nav_history for every answer of the upstream
ScreenerFetched ==
    [resp \in ScreenerResponses |-> fetch_full_nav_history(resp, as_of, lookback_years)]

\* history: the rows of an answer that are valid prices dated within
\* [now - lookback years, now]
ValidPoints(rows, now, lookback) ==
    Cardinality({j \in DOMAIN rows :
                   /\ rows[j].date.ok
                   /\ rows[j].nav.ok
                   /\ rows[j].nav.v > 0
                   /\ rows[j].date.v >= now - Days(lookback * DAYS_PER_YEAR)
                   /\ rows[j].date.v <= now})

ScreenerPoints ==
    [resp \in ScreenerResponses |-> ValidPoints(resp.data, as_of, lookback_years)]

\* what calculate_rolling_returns, calculate_sharpe, calculate_beta,
\* calculate_capture_ratios, calculate_benchmark_outperformance and
\* fetch_kuvera_metadata give for a fund, in hundredths
MetricProfiles ==
    { [rolling_consistency |-> 80, sharpe |-> 120, upside_capture |-> 110,
       downside_capture |-> 90, benchmark_outperf |-> 60, beta_stability |-> 95,
       ter |-> 50, aum |-> 1000],
      [rolling_consistency |-> 60, sharpe |-> 90, upside_capture |-> 100,
       downside_capture |-> 100, benchmark_outperf |-> 50, beta_stability |-> 90,
       ter |-> 100, aum |-> 5000] }

MetricRow(code, m) ==
    [schemeCode |-> code, rolling_consistency |-> m.rolling_consistency,
     sharpe |-> m.sharpe, upside_capture |-> m.upside_capture,
     downside_capture |-> m.downside_capture,
     benchmark_outperf |-> m.benchmark_outperf,
     beta_stability |-> m.beta_stability, ter |-> m.ter, aum |-> m.aum]

\* Step 1: fetch_benchmark_nav, and main's test of what it returns
\*   no mapping in BENCHMARK_MAP        -> None -> "Aborting."
\*   fetch_full_nav_history gives None  -> None -> "Aborting."
\*   a date of the benchmark's rows does not parse -> the exception leaves main
\* a mutant: main goes on whatever fetch_benchmark_nav returned
BenchmarkAlwaysUsable(got) == TRUE

\* if benchmark_navs is None or benchmark_navs.empty: ... return
BenchmarkUsable(got) == got.has_navs /\ got.navs # <<>>

BenchmarkStep ==
    /\ pipeline = "screener"
    /\ pc = "benchmark"
    /\ \/ \* BENCHMARK_MAP has neither the category nor "default"
          /\ benchmark' = "none"
          /\ pc' = IF BenchmarkUsable(NothingFetched) THEN "list" ELSE "aborted"
       \/ \E resp \in ScreenerResponses :
             LET got == ScreenerFetched[resp]
             IN  IF got.kind = "raise"
                 THEN pc' = "crashed" /\ UNCHANGED benchmark
                 ELSE /\ benchmark' = IF got.has_navs THEN "series" ELSE "none"
                      /\ pc' = IF BenchmarkUsable(got) THEN "list" ELSE "aborted"
    /\ UNCHANGED <<pipeline, directory, scheme_limit, offset, all_schemes,
                   requested, list_failed, schemes, task, fetches, results, table,
                   sanvars>>

\* fetch_fund_list: Direct and Growth in the name, neither IDCW nor dividend
IsCandidate(s) ==
    /\ "direct" \in s.schemeName
    /\ "growth" \in s.schemeName
    /\ "idcw" \notin s.schemeName
    /\ "dividend" \notin s.schemeName

Candidates(list, fund_limit) ==
    Take(SelectSeq(list, LAMBDA s : IsCandidate(s)), fund_limit * OVERFETCH)

ScreenCandidates ==
    /\ pipeline = "screener"
    /\ pc = "candidates"
    /\ schemes' = Candidates(all_schemes, scheme_limit)
    /\ pc' = "loop"
    /\ UNCHANGED <<pipeline, directory, scheme_limit, offset, all_schemes,
                   requested, list_failed, task, fetches, results, table, sanvars, benchmark>>

\* the funds the loop has passed, and `processed`
Passed == {c \in Codes : Finished(task[c].st)}
Processed == Cardinality({c \in Codes : task[c].st = "done" /\ task[c].out.counted})

\* a mutant: the loop goes on until processed is above the limit
LimitPassed(processed, fund_limit) == processed > fund_limit

\* if processed >= args.fund_limit: break
LimitReached(processed, fund_limit) == processed >= fund_limit

\* the position of the loop: the first candidate not yet passed
LoopIndex == Cardinality(Passed \cap Submitted) + 1

\* the head of the loop: leave it at the end of the candidates or at the
\* limit, else send the NAV request of the next candidate
ScreenLoopHead ==
    /\ pipeline = "screener"
    /\ pc = "loop"
    /\ IF LoopIndex > Len(schemes) \/ LimitReached(Processed, scheme_limit)
       THEN /\ pc' = "score"
            /\ UNCHANGED <<task, fetches>>
       ELSE LET c == schemes[LoopIndex].schemeCode
            IN  IF ~directory[c].hasCode
                THEN \* code = scheme["schemeCode"] raises KeyError in main
                     /\ task' = [task EXCEPT ![c].st = "done",
                                  ![c].out = [kind |-> "raise", counted |-> FALSE]]
                     /\ pc' = "crashed"
                     /\ UNCHANGED fetches
                ELSE /\ task' = [task EXCEPT ![c].st = "fetching",
                                             ![c].timeout = NAV_TIMEOUT]
                     /\ fetches' = [fetches EXCEPT ![c] = 1]
                     /\ pc' = "await"
    /\ UNCHANGED <<pipeline, directory, scheme_limit, offset, all_schemes,
                   requested, list_failed, schemes, results, table, sanvars, benchmark>>

\* the rest of the loop body, given what fetch_full_nav_history returned:
\*   [kind |-> "raise"], or [kind |-> "none"/"row", counted, why, row]
ScreenFund(scheme, got, m) ==
    IF got.kind = "raise" THEN [kind |-> "raise", counted |-> FALSE]
    ELSE IF ~got.has_navs \/ ~got.has_meta
         THEN [kind |-> "none", counted |-> FALSE,
               why |-> IF got.has_meta THEN "short_history"
                       ELSE IF got.error THEN "fetch_error" ELSE "no_data"]
    ELSE IF got.meta.scheme_category # EquityCategory
         THEN [kind |-> "none", counted |-> FALSE, why |-> "category"]
    ELSE IF Len(compute_monthly_returns(got.navs)) < MIN_MONTHLY
         THEN [kind |-> "none", counted |-> TRUE, why |-> "few_months"]
    ELSE [kind |-> "row", counted |-> TRUE, row |-> MetricRow(scheme.schemeCode, m)]

\* a mutant: the Retry budget is one more than configured
RetriesLeftOneMore(sent) == sent <= RETRY_TOTAL + 1

\* urllib3 sends again while the Retry budget lasts
RetriesLeft(sent) == sent <= RETRY_TOTAL

\* the upstream answers (or the timeout of 30 s ends the wait)
ScreenAnswer ==
    /\ pipeline = "screener"
    /\ pc = "await"
    /\ LET c == schemes[LoopIndex].schemeCode
       IN  \E resp \in ScreenerResponses :
             \/ \* the adapter sends the request again
                /\ Retriable(resp)
                /\ RetriesLeft(fetches[c])
                /\ fetches' = [fetches EXCEPT ![c] = @ + 1]
                /\ UNCHANGED <<pc, task, results>>
             \/ \* the request ends: the loop body runs to its end
                /\ ~(Retriable(resp) /\ RetriesLeft(fetches[c]))
                /\ \E m \in MetricProfiles :
                      LET out == ScreenFund(directory[c], ScreenerFetched[resp], m)
                      IN  /\ task' = [task EXCEPT ![c].st = "done", ![c].out = out,
                                           ![c].answer = [points |-> ScreenerPoints[resp]]]
                          /\ results' = IF out.kind = "row"
                                        THEN Append(results, out.row) ELSE results
                          /\ pc' = IF out.kind = "raise" THEN "crashed" ELSE "loop"
                /\ UNCHANGED fetches
    /\ UNCHANGED <<pipeline, directory, scheme_limit, offset, all_schemes,
                   requested, list_failed, schemes, table, sanvars, benchmark>>

ScreenScore ==
    /\ pipeline = "screener"
    /\ pc = "score"
    /\ IF results = <<>>
       THEN /\ pc' = "exit_empty"      \* "No funds processed successfully."
            /\ UNCHANGED table
       ELSE /\ \E ranked \in calculate_final_score(results) :
                  table' = [made |-> TRUE, rows |-> ranked]
            /\ pc' = "done"
    /\ UNCHANGED <<pipeline, directory, scheme_limit, offset, all_schemes,
                   requested, list_failed, schemes, task, fetches, results, sanvars, benchmark>>

ScreenNext ==
    \/ BenchmarkStep
    \/ ScreenCandidates
    \/ ScreenLoopHead
    \/ ScreenAnswer
    \/ ScreenScore

(***************************************************************************)
(* The two sanitizers alone, on raw rows drawn freely: fetch_nav_history    *)
(* (daily_mf_report.py) and fetch_full_nav_history (mf_screener.py), each   *)
(* applied to the body of one answer of the upstream.                       *)
(***************************************************************************)
\* rows on and around the edges of the two windows, and rows that are no price
ExtraRows ==
    { Row(AsOfDay + 1, 500), Row(AsOfDay, 501),
      Row(AsOfDay - 364, 502), Row(AsOfDay - 365, 503),
      Row(AsOfDay - lookback_years * DAYS_PER_YEAR + 1, 504),
      Row(AsOfDay - lookback_years * DAYS_PER_YEAR, 505),
      Row(AsOfDay - 3, 0), Row(AsOfDay - 4, -2),
      BadNavRow(AsOfDay - 5), BadDateRow(506) }

RECURSIVE SeqsUpTo(_, _)
SeqsUpTo(S, n) ==
    IF n = 0 THEN {<<>>}
    ELSE SeqsUpTo(S, n - 1) \cup
         {Append(s, x) : s \in {q \in SeqsUpTo(S, n - 1) : Len(q) = n - 1}, x \in S}

\* datetime.now() on the as-of day, at each time of day
SanAsOfs == {Midnight(AsOfDay) + k : k \in 0..(TicksPerDay - 1)}

SanInputs ==
    { [rows |-> extra \o base, as_of |-> a, lookback |-> lookback_years] :
        extra \in SeqsUpTo(ExtraRows, MaxExtra), base \in {<<>>, SixtyWeeks},
        a \in SanAsOfs }

\* fetch_nav_history up to its last line: the frame it takes the end points of
LumpsumSanitized(resp, now) ==
    IF FetchRaises(resp) THEN [kind |-> "raise"]
    ELSE IF resp.data = <<>> THEN [kind |-> "none"]
    ELSE IF ~DatesParse(resp.data) THEN [kind |-> "raise"]
    ELSE [kind |-> "frame", navs |-> LumpsumSeries(resp.data, now),
          returned |-> fetch_nav_history(resp, now)]

SanitizeLumpsum ==
    /\ pipeline = "sanitizer"
    /\ san_out.lumpsum = Unset
    /\ san_out' = [san_out EXCEPT !.lumpsum =
                      LumpsumSanitized(OkResponse(san_in.rows, MetaEquity), san_in.as_of)]
    /\ UNCHANGED <<pipeline, pc, directory, scheme_limit, offset, all_schemes,
                   requested, list_failed, schemes, task, fetches, results, table,
                   benchmark, san_in, calc_in, calc_out>>

SanitizeRolling ==
    /\ pipeline = "sanitizer"
    /\ san_out.rolling = Unset
    /\ san_out' = [san_out EXCEPT !.rolling =
                      fetch_full_nav_history(OkResponse(san_in.rows, MetaEquity),
                                             san_in.as_of, san_in.lookback)]
    /\ UNCHANGED <<pipeline, pc, directory, scheme_limit, offset, all_schemes,
                   requested, list_failed, schemes, task, fetches, results, table,
                   benchmark, san_in, calc_in, calc_out>>

SanInit ==
    /\ pipeline = "sanitizer"
    /\ pc = "sanitize"
    /\ directory = <<>>
    /\ scheme_limit = NoLimit
    /\ offset = 0
    /\ all_schemes = <<>>
    /\ requested = <<>>
    /\ list_failed = FALSE
    /\ schemes = <<>>
    /\ task = [c \in Codes |-> IdleTask]
    /\ fetches = [c \in Codes |-> 0]
    /\ results = <<>>
    /\ table = NoTable
    /\ benchmark = "unfetched"
    /\ san_in \in SanInputs
    /\ san_out = NoOutput
    /\ calc_in = NoArguments
    /\ calc_out = Unset

SanNext == SanitizeLumpsum \/ SanitizeRolling

SpecSan == SanInit /\ [][SanNext]_vars

(***************************************************************************)
(* The metric functions of mf_screener.py alone, each applied to arguments  *)
(* drawn freely.  A price series is a sequence of points [date, nav] as the *)
(* sanitizer leaves it: in date order, prices above 0.                      *)
(***************************************************************************)
\* the days a point of a drawn series may bear, from the first day on
SeriesDays == {0, 200, 365, 500, 730}
SeriesNavs == {10, 12}

NavPoint(day, nav) == [date |-> Midnight(day), nav |-> nav]

\* the series of at most n points, in date order (equal dates allowed)
SeriesUpTo(n) ==
    { s \in SeqsUpTo({NavPoint(d, v) : d \in SeriesDays, v \in SeriesNavs}, n) :
        \A i \in 1..(Len(s) - 1) : s[i].date <= s[i + 1].date }

\* a mutant: the guard on the elapsed days is gone
TooShortNever(actual_days) == FALSE

\* if actual_days < 300: continue
TooShort(actual_days) == actual_days < MIN_ELAPSED_DAYS

\* future = nav_series[nav_series.index >= end_date]: the places of its points
FutureOf(navs, end_date) == {j \in DOMAIN navs : navs[j].date >= end_date}

FirstOf(S) == CHOOSE j \in S : \A k \in S : j <= k

RECURSIVE RollingScan(_, _, _)
\* the loop of calculate_rolling_returns from start i on: the samples, each
\* kept as the terms of (end_nav / start_nav) ** (365.25 / actual_days) - 1
RollingScan(navs, window_years, i) ==
    IF i > Len(navs) THEN <<>>
    ELSE LET future == FutureOf(navs, YearsAfter(navs[i].date, window_years))
         IN  IF future = {} THEN <<>>                                  \* break
             ELSE LET j == FirstOf(future)
                      actual_days == DaysBetween(navs[i].date, navs[j].date)
                  IN  IF navs[i].nav <= 0 \/ TooShort(actual_days)
                      THEN RollingScan(navs, window_years, i + 1)      \* continue
                      ELSE <<[start |-> i, end |-> j, e |-> navs[j].nav,
                              s |-> navs[i].nav, d |-> actual_days]>>
                           \o RollingScan(navs, window_years, i + 1)

\* rolling_cagrs at the end of the loop (the frame is sorted by sort_index)
rolling_cagrs(navs, window_years) == RollingScan(SortByDate(navs), window_years, 1)

RollingInputs ==
    { [fn |-> "rolling_cagrs", navs |-> s, window_years |-> w] :
        s \in SeriesUpTo(MaxPoints) \ {<<>>}, w \in 0..MaxWindow }

CalcRolling ==
    /\ pipeline = "metrics"
    /\ calc_in.fn = "rolling_cagrs"
    /\ calc_out = Unset
    /\ calc_out' = [kind |-> "samples",
                    samples |-> rolling_cagrs(calc_in.navs, calc_in.window_years)]
    /\ UNCHANGED <<pipeline, pc, directory, scheme_limit, offset, all_schemes,
                   requested, list_failed, schemes, task, fetches, results, table,
                   benchmark, san_in, san_out, calc_in>>

(***************************************************************************)
(* The statistics of calculate_rolling_returns.  A sample is taken in whole  *)
(* units (hundredths of a percent); a consistency score 1 - std/mean is     *)
(* kept as the fraction under the root: [rn, rd] stands for                 *)
(* 1 - sqrt(rn / rd), so that [0, 1] is the score 1 and [1, 1] the score 0. *)
(***************************************************************************)
SampleValues == {-10, 0, 5, 20}

RECURSIVE SumOf(_)
SumOf(xs) == IF xs = <<>> THEN 0 ELSE Head(xs) + SumOf(Tail(xs))

SumOfSquares(xs) == SumOf([i \in DOMAIN xs |-> xs[i] * xs[i]])

ScoreZero == [kind |-> "score", rn |-> 1, rd |-> 1]
ScoreOne == [kind |-> "score", rn |-> 0, rd |-> 1]

\* max(0, min(1, 1 - (std_r / mean_r))), with mean_r = total / n and
\* std_r ** 2 = spread / n ** 2 (np.std: the population deviation)
ClampedConsistency(spread, total) ==
    IF total = 0 THEN [kind |-> "division_by_zero"]
    ELSE IF total < 0 THEN ScoreOne              \* 1 - x >= 1, cut to 1
    ELSE IF spread >= total * total THEN ScoreZero   \* 1 - x <= 0, cut to 0
    ELSE [kind |-> "score", rn |-> spread \div GCD(spread, total * total),
          rd |-> (total * total) \div GCD(spread, total * total)]

\* a mutant: the score is computed whatever the sign of the mean
MeanIsPositiveAlways(total) == TRUE

\* if mean_r > 0:
MeanIsPositive(total) == total > 0

\* calculate_rolling_returns from `if not rolling_cagrs` on: the consistency
consistency_score(cagrs) ==
    IF cagrs = <<>> THEN ScoreZero                       \* return 0, 0, 0
    ELSE LET n == Len(cagrs)
             total == SumOf(cagrs)
             spread == n * SumOfSquares(cagrs) - total * total
         IN  IF MeanIsPositive(total) THEN ClampedConsistency(spread, total)
             ELSE ScoreZero

ConsistencyInputs ==
    { [fn |-> "consistency", cagrs |-> xs] : xs \in SeqsUpTo(SampleValues, MaxSamples) }

CalcConsistency ==
    /\ pipeline = "metrics"
    /\ calc_in.fn = "consistency"
    /\ calc_out = Unset
    /\ calc_out' = consistency_score(calc_in.cagrs)
    /\ UNCHANGED <<pipeline, pc, directory, scheme_limit, offset, all_schemes,
                   requested, list_failed, schemes, task, fetches, results, table,
                   benchmark, san_in, san_out, calc_in>>

(***************************************************************************)
(* calculate_beta and calculate_capture_ratios.  A monthly return series is *)
(* a sequence of [month, ret], one entry per month end, returns in whole    *)
(* units; a ratio is kept as the fraction [num, den] it is computed as.     *)
(***************************************************************************)
ReturnPatterns == {"flat", "zero", "swing", "wave", "fall", "slide"}

ReturnOf(pattern, month) ==
    CASE pattern = "flat"  -> 1
      [] pattern = "zero"  -> 0
      [] pattern = "swing" -> IF month % 2 = 0 THEN 2 ELSE -1
      [] pattern = "wave"  -> (month % 3) - 1
      [] pattern = "fall"  -> -1 - (month % 2)
      [] pattern = "slide" -> IF month % 2 = 0 THEN 0 ELSE -1

MonthlySeries(first, last, pattern) ==
    [i \in 1..(last - first + 1) |->
        [month |-> first + i - 1, ret |-> ReturnOf(pattern, first + i - 1)]]

\* the series drawn: ending around the MIN_ALIGNED-th month, or empty
MonthlyInputs(firsts) ==
    { MonthlySeries(f, l, k) :
        f \in firsts, l \in {0} \cup ((MaxMonths - 2)..MaxMonths), k \in ReturnPatterns }

\* pd.DataFrame({"fund": fund_monthly, "bench": benchmark_monthly}).dropna():
\* the months both series have, in order
Aligned(fund_monthly, benchmark_monthly) ==
    LET common == SelectSeq(fund_monthly,
                      LAMBDA x : \E j \in DOMAIN benchmark_monthly :
                                    benchmark_monthly[j].month = x.month)
    IN  [i \in DOMAIN common |->
           [month |-> common[i].month, fund |-> common[i].ret,
            bench |-> (CHOOSE y \in Range(benchmark_monthly) :
                          y.month = common[i].month).ret]]

\* a fraction in lowest terms with a positive denominator; den = 0 is the
\* outcome of a division by zero
Ratio(num, den) ==
    IF den = 0 THEN [kind |-> "division_by_zero"]
    ELSE LET a == IF den < 0 THEN -num ELSE num
             b == IF den < 0 THEN -den ELSE den
             g == GCD(IF a < 0 THEN -a ELSE a, b)
         IN  [kind |-> "ratio", num |-> a \div g, den |-> b \div g]

RatioOne == [kind |-> "ratio", num |-> 1, den |-> 1]

\* a mutant: the test on the number of aligned months is gone
TooFewAlignedNever(n) == FALSE

\* if len(aligned) < 12: return 1.0
TooFewAligned(n) == n < MIN_ALIGNED

\* calculate_beta: cov[0][1] / cov[1][1] of np.cov (both over n - 1), each
\* times n * (n - 1)
calculate_beta(fund_monthly, benchmark_monthly) ==
    LET aligned == Aligned(fund_monthly, benchmark_monthly)
        n == Len(aligned)
        f == [i \in DOMAIN aligned |-> aligned[i].fund]
        b == [i \in DOMAIN aligned |-> aligned[i].bench]
        fb == [i \in DOMAIN aligned |-> aligned[i].fund * aligned[i].bench]
        cov_fund_bench == n * SumOf(fb) - SumOf(f) * SumOf(b)
        var_bench == n * SumOfSquares(b) - SumOf(b) * SumOf(b)
    IN  IF TooFewAligned(n) THEN RatioOne
        ELSE IF var_bench = 0 THEN RatioOne
        ELSE Ratio(cov_fund_bench, var_bench)

BetaInputs ==
    { [fn |-> "beta", fund_monthly |-> f, benchmark_monthly |-> b] :
        f \in MonthlyInputs({1}), b \in MonthlyInputs({1, 2}) }

CalcBeta ==
    /\ pipeline = "metrics"
    /\ calc_in.fn = "beta"
    /\ calc_out = Unset
    /\ calc_out' = calculate_beta(calc_in.fund_monthly, calc_in.benchmark_monthly)
    /\ UNCHANGED <<pipeline, pc, directory, scheme_limit, offset, all_schemes,
                   requested, list_failed, schemes, task, fetches, results, table,
                   benchmark, san_in, san_out, calc_in>>

(***************************************************************************)
(* calculate_benchmark_outperformance.                                      *)
(***************************************************************************)
FundDays == {0, 365, 730}
FundNavs == {10, 12}
BenchDays == {0, 200, 365, 730}
BenchNavs == {0, 10, 12}

\* the series of at most n points over the given days and values, in date order
SeriesOver(days, navs, n) ==
    { s \in SeqsUpTo({NavPoint(d, v) : d \in days, v \in navs}, n) :
        \A i \in 1..(Len(s) - 1) : s[i].date <= s[i + 1].date }

\* a mutant: a window in which the two growth rates are equal is a win
BeatsOrTies(fund_end_val, fund_start_val, b_end, b_start) ==
    fund_end_val * b_start >= b_end * fund_start_val

\* fund_cagr > bench_cagr: both are x ** (1 / years) - 1 with the same
\* years > 0, so the order is that of fund_end_val / fund_start_val and
\* b_end / b_start, with both divisors positive
Beats(fund_end_val, fund_start_val, b_end, b_start) ==
    fund_end_val * b_start > b_end * fund_start_val

RECURSIVE OutperformanceScan(_, _, _, _)
\* the loop of calculate_benchmark_outperformance from start i on: the
\* windows counted in total, each with the dates of the observations read,
\* the days both growth rates are annualized over, and whether it is a win
OutperformanceScan(fund_nav, bench_nav, window_years, i) ==
    IF i > Len(fund_nav) THEN <<>>
    ELSE LET start == fund_nav[i].date
             end == YearsAfter(start, window_years)
             fund_future == FutureOf(fund_nav, end)
             bench_future == FutureOf(bench_nav, end)
             bench_start == FutureOf(bench_nav, start)
         IN  IF fund_future = {} \/ bench_future = {} \/ bench_start = {}
             THEN <<>>                                                 \* break
             ELSE LET fund_start_val == fund_nav[i].nav
                      fund_end_val == fund_nav[FirstOf(fund_future)].nav
                      b_start == bench_nav[FirstOf(bench_start)].nav
                      b_end == bench_nav[FirstOf(bench_future)].nav
                      actual_days ==
                          DaysBetween(start, fund_nav[FirstOf(fund_future)].date)
                      rest == OutperformanceScan(fund_nav, bench_nav,
                                                 window_years, i + 1)
                  IN  IF fund_start_val <= 0 \/ b_start <= 0 THEN rest   \* continue
                      ELSE IF actual_days < MIN_ELAPSED_DAYS THEN rest   \* continue
                      ELSE <<[start |-> i,
                              fund_dates |-> <<start, fund_nav[FirstOf(fund_future)].date>>,
                              bench_dates |-> <<bench_nav[FirstOf(bench_start)].date,
                                                bench_nav[FirstOf(bench_future)].date>>,
                              bench_vals |-> <<b_start, b_end>>,
                              days |-> actual_days,     \* years, for both CAGRs
                              win |-> Beats(fund_end_val, fund_start_val,
                                            b_end, b_start)]>> \o rest

Neutral == Ratio(1, 2)

calculate_benchmark_outperformance(navs_df, benchmark_navs_df, window_years) ==
    LET counted == OutperformanceScan(SortByDate(navs_df),
                                      SortByDate(benchmark_navs_df), window_years, 1)
        total == Len(counted)
        wins == Len(SelectSeq(counted, LAMBDA x : x.win))
    IN  [kind |-> "outperformance", wins |-> wins, total |-> total,
         windows |-> counted,
         value |-> IF total = 0 THEN Neutral ELSE Ratio(wins, total)]

OutperformanceInputs ==
    { [fn |-> "outperformance", navs_df |-> f, benchmark_navs_df |-> b,
       window_years |-> w] :
        f \in SeriesOver(FundDays, FundNavs, MaxFund),
        b \in SeriesOver(BenchDays, BenchNavs, MaxBench),
        w \in 0..MaxWindow }

CalcOutperformance ==
    /\ pipeline = "metrics"
    /\ calc_in.fn = "outperformance"
    /\ calc_out = Unset
    /\ calc_out' = calculate_benchmark_outperformance(
                       calc_in.navs_df, calc_in.benchmark_navs_df,
                       calc_in.window_years)
    /\ UNCHANGED <<pipeline, pc, directory, scheme_limit, offset, all_schemes,
                   requested, list_failed, schemes, task, fetches, results, table,
                   benchmark, san_in, san_out, calc_in>>

\* a mutant: a month in which the benchmark did not move counts as an up month
UpMonthOrFlat(bench) == bench >= 0

\* up_mask = aligned["bench"] > 0
UpMonth(bench) == bench > 0

\* down_mask = aligned["bench"] < 0
DownMonth(bench) == bench < 0

\* aligned.loc[mask, "fund"].mean() / aligned.loc[mask, "bench"].mean(): the
\* two means are over the same months, so their quotient is that of the sums
MeanOverMean(months) ==
    Ratio(SumOf([i \in DOMAIN months |-> months[i].fund]),
          SumOf([i \in DOMAIN months |-> months[i].bench]))

calculate_capture_ratios(fund_monthly, benchmark_monthly) ==
    LET aligned == Aligned(fund_monthly, benchmark_monthly)
        up == SelectSeq(aligned, LAMBDA x : UpMonth(x.bench))
        down == SelectSeq(aligned, LAMBDA x : DownMonth(x.bench))
    IN  [kind |-> "capture",
         upside |-> IF Len(up) > 0 THEN MeanOverMean(up) ELSE RatioOne,
         downside |-> IF Len(down) > 0 THEN MeanOverMean(down) ELSE RatioOne]

CaptureInputs ==
    { [fn |-> "capture", fund_monthly |-> f, benchmark_monthly |-> b] :
        f \in MonthlyInputs({1}), b \in MonthlyInputs({1, 2}) }

CalcCapture ==
    /\ pipeline = "metrics"
    /\ calc_in.fn = "capture"
    /\ calc_out = Unset
    /\ calc_out' = calculate_capture_ratios(calc_in.fund_monthly,
                                            calc_in.benchmark_monthly)
    /\ UNCHANGED <<pipeline, pc, directory, scheme_limit, offset, all_schemes,
                   requested, list_failed, schemes, task, fetches, results, table,
                   benchmark, san_in, san_out, calc_in>>

(***************************************************************************)
(* normalize_column and calculate_final_score on their own.                 *)
(***************************************************************************)
ColumnValues == {-5, 0, 3, 7}

NormalizeInputs ==
    { [fn |-> "normalize", col |-> c, invert |-> inv] :
        c \in SeqsUpTo(ColumnValues, MaxColumn) \ {<<>>}, inv \in BOOLEAN }

CalcNormalize ==
    /\ pipeline = "metrics"
    /\ calc_in.fn = "normalize"
    /\ calc_out = Unset
    /\ calc_out' = [kind |-> "normed",
                    values |-> normalize_column(calc_in.col, calc_in.invert)]
    /\ UNCHANGED <<pipeline, pc, directory, scheme_limit, offset, all_schemes,
                   requested, list_failed, schemes, task, fetches, results, table,
                   benchmark, san_in, san_out, calc_in>>

\* the metrics of a fund: the best and the worst on every one, and two that
\* are the best on metrics of the same total weight
ScoreProfiles ==
    { [rolling_consistency |-> 100, sharpe |-> 100, upside_capture |-> 100,
       downside_capture |-> 0, benchmark_outperf |-> 100, beta_stability |-> 100,
       ter |-> 0, aum |-> 1000],
      [rolling_consistency |-> 0, sharpe |-> 0, upside_capture |-> 0,
       downside_capture |-> 100, benchmark_outperf |-> 0, beta_stability |-> 0,
       ter |-> 100, aum |-> 5000],
      [rolling_consistency |-> 100, sharpe |-> 0, upside_capture |-> 0,
       downside_capture |-> 100, benchmark_outperf |-> 0, beta_stability |-> 0,
       ter |-> 100, aum |-> 1000],
      [rolling_consistency |-> 0, sharpe |-> 100, upside_capture |-> 0,
       downside_capture |-> 100, benchmark_outperf |-> 0, beta_stability |-> 100,
       ter |-> 100, aum |-> 5000] }

\* the frame of results: row i is the i-th fund processed
ResultsFrame(profiles) ==
    [i \in DOMAIN profiles |->
        [schemeCode |-> i,
         rolling_consistency |-> profiles[i].rolling_consistency,
         sharpe |-> profiles[i].sharpe,
         upside_capture |-> profiles[i].upside_capture,
         downside_capture |-> profiles[i].downside_capture,
         benchmark_outperf |-> profiles[i].benchmark_outperf,
         beta_stability |-> profiles[i].beta_stability,
         ter |-> profiles[i].ter,
         aum |-> profiles[i].aum]]

FinalScoreInputs ==
    { [fn |-> "final_score", df |-> ResultsFrame(ps)] :
        ps \in SeqsUpTo(ScoreProfiles, MaxRows) \ {<<>>} }

CalcFinalScore ==
    /\ pipeline = "metrics"
    /\ calc_in.fn = "final_score"
    /\ calc_out = Unset
    /\ \E ranked \in calculate_final_score(calc_in.df) :
          calc_out' = [kind |-> "ranking", rows |-> ranked]
    /\ UNCHANGED <<pipeline, pc, directory, scheme_limit, offset, all_schemes,
                   requested, list_failed, schemes, task, fetches, results, table,
                   benchmark, san_in, san_out, calc_in>>

(***************************************************************************)
(* process_scheme on its own: one scheme, the answer of the upstream to its *)
(* NAV request, and the configuration the run was started with.             *)
(***************************************************************************)
NameDirectIncomeDistribution == {"direct", "income distribution"}

WeekOld == <<Row(AsOfDay - 7, 12), Row(AsOfDay - 364, 10)>>
FiveDaysOld == <<Row(AsOfDay - 5, 12), Row(AsOfDay - 364, 10)>>
FourDaysOld == <<Row(AsOfDay - 4, 12), Row(AsOfDay - 364, 10)>>
SameDayTwice == <<Row(AsOfDay, 12), Row(AsOfDay, 10)>>
OneValidDay == <<Row(AsOfDay, 12), Row(AsOfDay - 200, 0), BadNavRow(AsOfDay - 300)>>

SchemeResponses ==
    { r \in LumpsumResponses : r.kind # "noresp" }
    \cup { OkResponse(d, m) :
             d \in {WeekOld, FiveDaysOld, FourDaysOld, SameDayTwice, OneValidDay},
             m \in {MetaEquity, MetaNoIsin} }

\* CONFIG["reporting"]["staleness_days"]: the default and two other settings
StalenessSettings == {3, STALE_DAYS, 10}

ProcessSchemeInputs ==
    { [fn |-> "process_scheme",
       scheme |-> [schemeCode |-> 1, schemeName |-> n, hasCode |-> TRUE],
       resp |-> r, as_of |-> as_of, staleness_days |-> s] :
        n \in {NameDirectGrowth, NameDirectIdcw, NameDirectIncomeDistribution},
        r \in SchemeResponses, s \in StalenessSettings }

\* xirr = compute_lumpsum_xirr(nav_data), when process_scheme gets to that line
XirrComputed(scheme, resp, now) ==
    LET nav_data == fetch_nav_history(resp, now)
    IN  IF /\ ~IsIdcwName(scheme.schemeName)
           /\ nav_data.kind = "data"
           /\ ~IsStale(nav_data.end_date, now)
        THEN compute_lumpsum_xirr(nav_data)
        ELSE Unset

\* process_scheme from its first line: the name filter, then the fetch
ProcessSchemeCall(scheme, resp, now) ==
    IF IsIdcwName(scheme.schemeName) THEN [kind |-> "none", why |-> "idcw"]
    ELSE process_scheme(scheme, resp, now)

CalcProcessScheme ==
    /\ pipeline = "metrics"
    /\ calc_in.fn = "process_scheme"
    /\ calc_out = Unset
    /\ calc_out' = [kind |-> "returned",
                    out |-> ProcessSchemeCall(calc_in.scheme, calc_in.resp,
                                              calc_in.as_of),
                    xirr |-> XirrComputed(calc_in.scheme, calc_in.resp,
                                          calc_in.as_of)]
    /\ UNCHANGED <<pipeline, pc, directory, scheme_limit, offset, all_schemes,
                   requested, list_failed, schemes, task, fetches, results, table,
                   benchmark, san_in, san_out, calc_in>>

CalcInit ==
    /\ pipeline = "metrics"
    /\ pc = "calc"
    /\ directory = <<>>
    /\ scheme_limit = NoLimit
    /\ offset = 0
    /\ all_schemes = <<>>
    /\ requested = <<>>
    /\ list_failed = FALSE
    /\ schemes = <<>>
    /\ task = [c \in Codes |-> IdleTask]
    /\ fetches = [c \in Codes |-> 0]
    /\ results = <<>>
    /\ table = NoTable
    /\ benchmark = "unfetched"
    /\ san_in = NoInput
    /\ san_out = NoOutput
    /\ \/ calc_in \in RollingInputs
       \/ calc_in \in ConsistencyInputs
       \/ calc_in \in BetaInputs
       \/ calc_in \in CaptureInputs
       \/ calc_in \in OutperformanceInputs
       \/ calc_in \in NormalizeInputs
       \/ calc_in \in FinalScoreInputs
       \/ calc_in \in ProcessSchemeInputs
    /\ calc_out = Unset

CalcNext ==
    \/ CalcRolling
    \/ CalcConsistency
    \/ CalcBeta
    \/ CalcCapture
    \/ CalcOutperformance
    \/ CalcNormalize
    \/ CalcFinalScore
    \/ CalcProcessScheme

SpecCalc == CalcInit /\ [][CalcNext]_vars

(***************************************************************************)
(* The pipelines' specification.                                           *)
(***************************************************************************)
(***************************************************************************)
(* The per-fund evaluations of the screener's loop against the benchmark    *)
(* main built before the loop.  The benchmark is two objects every call is  *)
(* handed a reference to: the frame benchmark_navs (its rows, and whether   *)
(* its index is still the RangeIndex it was built with) and the series      *)
(* benchmark_monthly.  Each action leaves them as the calls the function    *)
(* makes on its argument leave them.                                        *)
(***************************************************************************)
Frame(rows) == [index |-> "range", rows |-> rows]

\* a mutant: set_index("date", inplace=True)
AfterSetIndexInPlace(frame) == [index |-> "date", rows |-> frame.rows]

\* benchmark_navs_df.set_index("date") without inplace: the result is a new
\* frame, and so are ["nav"] and .sort_index() of it; the argument is as it was
AfterSetIndex(frame) == frame

EvalBenchmarks ==
    { [navs |-> Frame(b), monthly |-> m] :
        b \in SeriesOver(BenchDays, FundNavs, MaxBench) \ {<<>>},
        m \in {MonthlySeries(1, MIN_ALIGNED, "swing"),
               MonthlySeries(2, MIN_ALIGNED + 1, "wave")} }

EvalFundMonthly ==
    {MonthlySeries(1, MIN_ALIGNED, "wave"), MonthlySeries(1, MIN_ALIGNED + 1, "flat")}

EvalFundNavs ==
    {<<NavPoint(0, 10), NavPoint(365, 12)>>, <<NavPoint(365, 10), NavPoint(730, 10)>>}

EvalInit ==
    /\ pipeline = "evaluate"
    /\ pc = "loop"
    /\ directory = <<>>
    /\ scheme_limit = NoLimit
    /\ offset = 0
    /\ all_schemes = <<>>
    /\ requested = <<>>
    /\ list_failed = FALSE
    /\ schemes = <<>>
    /\ task = [c \in Codes |-> IdleTask]
    /\ fetches = [c \in Codes |-> 0]
    /\ results = <<>>
    /\ table = NoTable
    /\ benchmark \in EvalBenchmarks
    /\ san_in = NoInput
    /\ san_out = NoOutput
    /\ calc_in = [fn |-> "evaluate", constructed |-> benchmark]
    /\ calc_out = [kind |-> "evaluated", calls |-> <<>>, last |-> Unset]

\* beta = calculate_beta(fund_monthly, benchmark_monthly): the series is read
\* by the DataFrame constructor; dropna() is called on the new frame
EvalBeta ==
    /\ pipeline = "evaluate"
    /\ Len(calc_out.calls) < MaxCalls
    /\ \E f \in EvalFundMonthly :
          calc_out' = [kind |-> "evaluated",
                       calls |-> Append(calc_out.calls, "beta"),
                       last |-> calculate_beta(f, benchmark.monthly)]
    /\ UNCHANGED <<pipeline, pc, directory, scheme_limit, offset, all_schemes,
                   requested, list_failed, schemes, task, fetches, results, table,
                   benchmark, san_in, san_out, calc_in>>

\* calculate_capture_ratios(fund_monthly, benchmark_monthly): the same
EvalCapture ==
    /\ pipeline = "evaluate"
    /\ Len(calc_out.calls) < MaxCalls
    /\ \E f \in EvalFundMonthly :
          calc_out' = [kind |-> "evaluated",
                       calls |-> Append(calc_out.calls, "capture"),
                       last |-> calculate_capture_ratios(f, benchmark.monthly)]
    /\ UNCHANGED <<pipeline, pc, directory, scheme_limit, offset, all_schemes,
                   requested, list_failed, schemes, task, fetches, results, table,
                   benchmark, san_in, san_out, calc_in>>

\* calculate_benchmark_outperformance(navs, benchmark_navs, args.rolling_window)
EvalOutperformance ==
    /\ pipeline = "evaluate"
    /\ Len(calc_out.calls) < MaxCalls
    /\ \E f \in EvalFundNavs :
          calc_out' = [kind |-> "evaluated",
                       calls |-> Append(calc_out.calls, "outperformance"),
                       last |-> calculate_benchmark_outperformance(
                                    f, benchmark.navs.rows, MaxWindow)]
    /\ benchmark' = [navs |-> AfterSetIndex(benchmark.navs),
                     monthly |-> benchmark.monthly]
    /\ UNCHANGED <<pipeline, pc, directory, scheme_limit, offset, all_schemes,
                   requested, list_failed, schemes, task, fetches, results, table,
                   san_in, san_out, calc_in>>

EvalNext == EvalBeta \/ EvalCapture \/ EvalOutperformance

SpecEval == EvalInit /\ [][EvalNext]_vars

(***************************************************************************)
(* fetch_all_schemes on its own, over directories of several pages.         *)
(***************************************************************************)
ListDirectories ==
    UNION { { [i \in 1..n |-> Entry(i, f[i])] :
                f \in [1..n -> {k \in EntryKinds : k.hasCode}] }
            : n \in 0..MaxListed }

ListInit ==
    /\ pipeline = "list"
    /\ pc = "list"
    /\ directory \in ListDirectories
    /\ scheme_limit = NoLimit
    /\ offset = 0
    /\ all_schemes = <<>>
    /\ requested = <<>>
    /\ list_failed = FALSE
    /\ schemes = <<>>
    /\ task = [c \in Codes |-> IdleTask]
    /\ fetches = [c \in Codes |-> 0]
    /\ results = <<>>
    /\ table = NoTable
    /\ benchmark = "unfetched"
    /\ san_in = NoInput
    /\ san_out = NoOutput
    /\ calc_in = NoArguments
    /\ calc_out = Unset

ListNext == FetchPage

SpecList == ListInit /\ [][ListNext]_vars

Init ==
    /\ pipeline \in {"lumpsum", "screener"}
    /\ pc = IF pipeline = "lumpsum" THEN "list" ELSE "benchmark"
    /\ directory \in Directories
    /\ scheme_limit \in IF pipeline = "lumpsum" THEN {NoLimit, SmallLimit}
                                               ELSE {0, 1, SmallLimit}
    /\ offset = 0
    /\ all_schemes = <<>>
    /\ requested = <<>>
    /\ list_failed = FALSE
    /\ schemes = <<>>
    /\ task = [c \in Codes |-> IdleTask]
    /\ fetches = [c \in Codes |-> 0]
    /\ results = <<>>
    /\ table = NoTable
    /\ benchmark = "unfetched"
    /\ san_in = NoInput
    /\ san_out = NoOutput
    /\ calc_in = NoArguments
    /\ calc_out = Unset

Next == FetchPage \/ LumpNext \/ ScreenNext

Spec == Init /\ [][Next]_vars

(***************************************************************************)
(* Vocabulary of the properties.                                           *)
(***************************************************************************)
\* main has left the loop over the funds: the batch-only step has begun
BatchStep ==
    \/ pipeline = "lumpsum" /\ pc \in {"persist", "rank", "done", "exit_empty"}
    \/ pipeline = "screener" /\ pc \in {"score", "done", "exit_empty"}

\* the run is over and none of its steps raised
RunEnded == pc \in {"done", "exit_empty"}

\* the funds whose task, or turn of the loop, has come to its end
Evaluated == {c \in Codes : Finished(task[c].st)}

IsScored(c) == Finished(task[c].st) /\ task[c].out.kind = "row"
IsRejected(c) == Finished(task[c].st) /\ task[c].out.kind # "row"

\* the fund's request failed: connection error, error status or unreadable body
FetchFailed(c) ==
    /\ Finished(task[c].st)
    /\ task[c].out.kind = "none"
    /\ task[c].out.why = "fetch_error"

\* the fund's rows did not parse
ParseFailed(c) ==
    /\ Finished(task[c].st)
    /\ task[c].out.kind = "none"
    /\ task[c].out.why = "parse_error"

\* an exception left process_scheme, or the body of the screener's loop
Raised(c) == Finished(task[c].st) /\ task[c].out.kind = "raise"

ResultCodes == {results[i].schemeCode : i \in DOMAIN results}

TableCodes ==
    IF pipeline = "screener"
    THEN {table.rows[i].row.schemeCode : i \in DOMAIN table.rows}
    ELSE {table.rows[i].schemeCode : i \in DOMAIN table.rows}

\* the rows of the scheduled schemes, in the order the schemes were submitted
RECURSIVE RowsInOrder(_)
RowsInOrder(list) ==
    IF list = <<>> THEN <<>>
    ELSE LET c == Head(list).schemeCode
         IN  (IF IsScored(c) THEN <<task[c].out.row>> ELSE <<>>)
             \o RowsInOrder(Tail(list))

(***************************************************************************)
(* C1.  Lump-sum pipeline: whatever fails inside the task of a scheme      *)
(* (network error, HTTP error, parse error, an exception that leaves       *)
(* process_scheme), that scheme alone ends without a row.  The run never   *)
(* aborts, no other task is held up, every submitted scheme is collected   *)
(* before the loop is left, and every scheme that returned a row has that  *)
(* row in results.                                                         *)
(***************************************************************************)
C1_LumpsumFailureIsolated ==
    pipeline = "lumpsum" =>
      /\ pc # "crashed"
      /\ \A c \in Submitted :
            /\ task[c].st = "collected" =>
                  /\ IsScored(c) => task[c].out.row \in Range(results)
                  /\ IsRejected(c) => c \notin ResultCodes
            /\ pc = "pool" /\ task[c].st = "pending" => ENABLED TaskStart(c)
            /\ pc = "pool" /\ task[c].st = "done" => ENABLED Collect(c)
      /\ BatchStep => \A c \in Submitted : task[c].st = "collected"

\* a run is over in which one scheme raised out of process_scheme, one failed
\* inside it, and their neighbour's row is in the table
C1_Witness ==
    /\ pipeline = "lumpsum"
    /\ pc = "done"
    /\ \E c, d \in Submitted :
          /\ Raised(c) \/ FetchFailed(c) \/ ParseFailed(c)
          /\ IsScored(d)
          /\ d \in TableCodes

(***************************************************************************)
(* C2.  Screener: a fund whose NAV request was sent and whose evaluation    *)
(* fails (fetch error, rows that do not parse) is passed over, the failure  *)
(* never leaves the loop.                                                   *)
(***************************************************************************)
C2_ScreenerFailureIsolated ==
    pipeline = "screener" =>
      \A c \in Codes : fetches[c] > 0 /\ IsRejected(c) => task[c].out.kind = "none"

(***************************************************************************)
(* C3.  The batch-only step (sorting, filtering, ranking) begins only when *)
(* every fund handed to the loop has reached its end, and from then on no   *)
(* row is added to the collected rows.                                      *)
(***************************************************************************)
AllTerminal ==
    \A c \in Codes :
       task[c].st \in IF pipeline = "lumpsum" THEN {"idle", "collected"}
                                             ELSE {"idle", "done"}

C3_DrainedBeforeBatchStep ==
    /\ [](BatchStep => AllTerminal)
    /\ [][BatchStep => /\ Len(results') = Len(results)
                       /\ Range(results') = Range(results)
                       /\ task' = task]_vars

\* the ranking is about to start on the rows of two collected schemes
C3_Witness ==
    /\ pipeline = "lumpsum"
    /\ pc = "rank"
    /\ Cardinality(Submitted) >= 2
    /\ Len(results) >= 2

(***************************************************************************)
(* C4.  Lump-sum pipeline: the final table is the same whatever the order   *)
(* the workers completed in; it is the table of the run in which the tasks  *)
(* complete in the order they were submitted.                               *)
(***************************************************************************)
C4_TableIndependentOfCompletionOrder ==
    pipeline = "lumpsum" /\ pc = "done" =>
      table.rows = LumpsumRanking(RowsInOrder(schemes))

(***************************************************************************)
(* C5.  As the spec has it: the table has N - K rows and the run's summary  *)
(* counts the K rejections due to fetch failure.                            *)
(***************************************************************************)
OtherwiseValid ==
    \A c \in Evaluated :
       \/ FetchFailed(c)
       \/ /\ IsScored(c)
          /\ pipeline = "lumpsum" => Rankable(<<task[c].out.row>>) # <<>>

FetchFailures == {c \in Evaluated : FetchFailed(c)}

C6_FetchedAtMostOnce ==
    \A c \in Codes :
       /\ fetches[c] <= 1
       /\ IsRejected(c) => c \notin ResultCodes /\ c \notin TableCodes

(***************************************************************************)
(* C6, as the code has it.  A fund goes Pending -> {Rejected | Scored},     *)
(* through a fetch unless its directory entry alone rejects it; Rejected    *)
(* and Scored are terminal; the fetch function is called once, and sends    *)
(* one request in the lump-sum pipeline and at most 1 + 3 in the screener,  *)
(* whose session retries a failed request 3 times; a Scored fund was        *)
(* fetched; a Rejected fund has no row in the results or in the table.      *)
(***************************************************************************)
MaxRequests == IF pipeline = "screener" THEN 1 + RETRY_TOTAL ELSE 1

C6_FundLifecycle ==
    /\ [](\A c \in Codes :
             /\ fetches[c] <= MaxRequests
             /\ IsScored(c) => fetches[c] >= 1
             /\ IsRejected(c) => c \notin ResultCodes /\ c \notin TableCodes
             /\ task[c].st = "idle" => fetches[c] = 0)
    /\ [][\A c \in Codes :
             Finished(task[c].st) => /\ Finished(task'[c].st)
                                     /\ task'[c].out = task[c].out
                                     /\ fetches'[c] = fetches[c]]_vars

\* a fund of the screener ended after its request was sent 1 + 3 times
C6_Witness ==
    /\ pipeline = "screener"
    /\ \E c \in Codes : Finished(task[c].st) /\ fetches[c] = 1 + RETRY_TOTAL

(***************************************************************************)
(* C7.  As the spec has it: when a request for the scheme list fails, no    *)
(* fund is evaluated and no table is made.                                  *)
(***************************************************************************)
C7_ListFailureIsFatal ==
    list_failed => /\ \A c \in Codes : task[c].st = "idle"
                   /\ ~table.made

(***************************************************************************)
(* C7, as the code has it.  A failed request for a page of the scheme list  *)
(* ends the paging and nothing else: the run goes on with the schemes of    *)
(* the pages read before it.  Only when the first page fails is the         *)
(* universe empty, and then no fund is evaluated and no table is made.      *)
(***************************************************************************)
C7_ListFailureEndsPaging ==
    list_failed =>
      /\ pc # "list"
      /\ all_schemes = SubSeq(directory, 1, offset)
      /\ Len(requested) = (offset \div batch_size) + 1
      /\ requested[Len(requested)] = offset
      /\ all_schemes = <<>> => /\ \A c \in Codes : task[c].st = "idle"
                               /\ ~table.made

\* a table was made from the first pages of a directory whose later page failed
C7_Witness ==
    /\ list_failed
    /\ table.made
    /\ all_schemes # <<>>
    /\ Len(all_schemes) < Len(directory)

(***************************************************************************)
(* C8.  Screener: without a benchmark series (no mapping, failed fetch,     *)
(* empty or too short data) the run ends at once: the scheme list is not    *)
(* requested, no fund is fetched or evaluated, no table is made.  Whatever  *)
(* the run does past the benchmark step, it does with a series.             *)
(***************************************************************************)
C8_NoBenchmarkNoRun ==
    pipeline = "screener" =>
      /\ benchmark = "none" => pc = "aborted"
      /\ pc \notin {"benchmark", "aborted", "crashed"} => benchmark = "series"
      /\ pc \in {"benchmark", "aborted"} =>
            /\ requested = <<>>
            /\ \A c \in Codes : task[c].st = "idle" /\ fetches[c] = 0
            /\ results = <<>>
            /\ ~table.made
      /\ pc = "aborted" => ~ENABLED Next

\* the run has aborted for want of a benchmark
C8_Witness ==
    /\ pipeline = "screener"
    /\ benchmark = "none"
    /\ pc = "aborted"

(***************************************************************************)
(* C9.  Every NAV request of a fund is sent with a timeout, and no task     *)
(* waits for ever on an upstream that does not answer.                      *)
(***************************************************************************)
C9_EveryFetchHasTimeout ==
    \A c \in Codes :
       /\ task[c].st = "fetching" => task[c].timeout # NoTimeout
       /\ task[c].st # "blocked"

(***************************************************************************)
(* C10.  The series a sanitizer keeps holds exactly the rows of its input   *)
(* whose price is a number above 0 and whose date lies in                   *)
(* [as_of - lookback, as_of], each as often as the input has it, in         *)
(* ascending order of date.                                                 *)
(***************************************************************************)
InWindow(r, lo, hi) ==
    /\ r.nav.ok
    /\ r.nav.v > 0
    /\ r.date.v >= lo
    /\ r.date.v <= hi

Ascending(navs) ==
    \A i, j \in DOMAIN navs : i < j => navs[i].date <= navs[j].date

ExactlyTheWindow(navs, rows, lo, hi) ==
    /\ Ascending(navs)
    /\ \A i \in DOMAIN navs :
          \E j \in DOMAIN rows : InWindow(rows[j], lo, hi) /\ Point(rows[j]) = navs[i]
    /\ \A j \in DOMAIN rows :
          InWindow(rows[j], lo, hi) =>
             Cardinality({i \in DOMAIN navs : navs[i] = Point(rows[j])})
               = Cardinality({k \in DOMAIN rows : InWindow(rows[k], lo, hi)
                                                  /\ Point(rows[k]) = Point(rows[j])})

C10_SanitizedIsExactlyTheWindow ==
    /\ san_out.lumpsum.kind = "frame" =>
          ExactlyTheWindow(san_out.lumpsum.navs, san_in.rows,
                           YearsBefore(san_in.as_of, 1), san_in.as_of)
    /\ san_out.rolling.kind = "ret" /\ san_out.rolling.has_navs =>
          ExactlyTheWindow(san_out.rolling.navs, san_in.rows,
                           YearsBefore(san_in.as_of, san_in.lookback), san_in.as_of)

(***************************************************************************)
(* C11.  A sanitizer never raises for a malformed row: whatever the dates   *)
(* and prices of the rows, it returns (a series, or its sentinel for too    *)
(* little data): no exception leaves it.                                    *)
(***************************************************************************)
C11_SanitizerNeverRaises ==
    /\ san_out.lumpsum.kind # "raise"
    /\ san_out.rolling.kind # "raise"

(***************************************************************************)
(* C12.  Screener: a fund whose answer holds fewer than 60 valid prices     *)
(* dated within the lookback window is passed over before any metric is     *)
(* computed and has no row in the results; a fund with 60 or more is not    *)
(* rejected for the length of its history.                                  *)
(***************************************************************************)
C12_SixtyPointFloor ==
    pipeline = "screener" =>
      \A c \in Codes :
         task[c].st = "done" /\ fetches[c] > 0 =>
            /\ task[c].answer.points < MIN_POINTS =>
                  /\ task[c].out.kind = "none"
                  /\ ~task[c].out.counted
                  /\ c \notin ResultCodes
            /\ task[c].answer.points >= MIN_POINTS =>
                  ~(task[c].out.kind = "none" /\ task[c].out.why = "short_history")

(***************************************************************************)
(* C13.  The rolling windows of calculate_rolling_returns.  Starts are      *)
(* taken in date order and give one sample per accepted window: the window  *)
(* of start t closes on the first observation dated t + window_years or     *)
(* later (a later observation whenever window_years > 0); a start with no   *)
(* such observation gives none, nor does any start after it; a window of    *)
(* fewer than 300 elapsed days is skipped and later starts are still        *)
(* scanned.  Hence a single point gives no sample, and a series of distinct *)
(* dates that spans exactly one window gives exactly one, of the terms      *)
(* (end / start) ** (365.25 / elapsed days) - 1.                            *)
(***************************************************************************)
Closing(navs, w, i) == {j \in DOMAIN navs : navs[j].date >= YearsAfter(navs[i].date, w)}

Elapsed(navs, i, j) == (navs[j].date - navs[i].date) \div TicksPerDay

AcceptedStarts(navs, w) ==
    {i \in DOMAIN navs :
       /\ Closing(navs, w, i) # {}
       /\ \E j \in Closing(navs, w, i) :
             /\ \A k \in Closing(navs, w, i) : j <= k
             /\ Elapsed(navs, i, j) >= 300}

SpansOneWindow(navs, w) ==
    /\ w >= 1
    /\ Len(navs) >= 2
    /\ \A i \in 1..(Len(navs) - 1) : navs[i].date < navs[i + 1].date
    /\ navs[Len(navs)].date = YearsAfter(navs[1].date, w)

C13_RollingWindows ==
    calc_in.fn = "rolling_cagrs" /\ calc_out # Unset =>
      LET navs == calc_in.navs
          w == calc_in.window_years
          got == calc_out.samples
      IN  /\ Len(got) = Cardinality(AcceptedStarts(navs, w))
          /\ \A a, b \in DOMAIN got : a < b => got[a].start < got[b].start
          /\ \A a \in DOMAIN got :
                /\ got[a].start \in AcceptedStarts(navs, w)
                /\ got[a].end \in Closing(navs, w, got[a].start)
                /\ \A k \in Closing(navs, w, got[a].start) : got[a].end <= k
                /\ got[a].e = navs[got[a].end].nav
                /\ got[a].s = navs[got[a].start].nav
                /\ got[a].d = Elapsed(navs, got[a].start, got[a].end)
          /\ Len(navs) = 1 => got = <<>>
          /\ SpansOneWindow(navs, w) =>
                got = <<[start |-> 1, end |-> Len(navs), e |-> navs[Len(navs)].nav,
                         s |-> navs[1].nav, d |-> w * 365]>>

\* a series of three dates spanning one window gave its one sample
C13_Witness ==
    /\ calc_in.fn = "rolling_cagrs"
    /\ calc_out # Unset
    /\ Len(calc_in.navs) = 3
    /\ SpansOneWindow(calc_in.navs, calc_in.window_years)
    /\ Len(calc_out.samples) = 1

(***************************************************************************)
(* C14.  The consistency score lies in [0, 1]: it is                        *)
(* clamp(1 - stddev / mean, 0, 1) when the mean of the samples is above 0,  *)
(* and 0 when the mean is 0 or less or there is no sample; nothing is       *)
(* divided by zero.                                                         *)
(***************************************************************************)
C14_ConsistencyInUnitInterval ==
    calc_in.fn = "consistency" /\ calc_out # Unset =>
      LET xs == calc_in.cagrs
          n == Len(xs)
          total == SumOf(xs)
          spread == n * SumOfSquares(xs) - total * total
      IN  /\ calc_out.kind = "score"
          /\ calc_out.rd > 0
          /\ 0 <= calc_out.rn /\ calc_out.rn <= calc_out.rd
          /\ n = 0 \/ total <= 0 => calc_out = ScoreZero
          /\ n > 0 /\ total > 0 =>
                IF spread >= total * total THEN calc_out = ScoreZero
                ELSE calc_out.rn * total * total = calc_out.rd * spread

\* a score strictly between 0 and 1, and one cut to 0 for a mean below 0
C14_Witness ==
    /\ calc_in.fn = "consistency"
    /\ calc_out # Unset
    /\ SumOf(calc_in.cagrs) > 0
    /\ calc_out.rn > 0
    /\ calc_out.rn < calc_out.rd

(***************************************************************************)
(* C15.  calculate_beta returns exactly 1 whenever the two series have      *)
(* fewer than 12 months in common, whatever their values, and 1 when the    *)
(* variance of the benchmark over the common months is 0; otherwise it is   *)
(* Cov(fund, benchmark) / Var(benchmark); it never divides by zero.         *)
(***************************************************************************)
CommonMonths(f, b) ==
    {f[i].month : i \in DOMAIN f} \cap {b[j].month : j \in DOMAIN b}

ReturnIn(series, m) == (CHOOSE x \in Range(series) : x.month = m).ret

RECURSIVE SumOver(_, _, _)
\* the sum over the months M of Term[m]
SumOver(M, Term, unused) ==
    IF M = {} THEN 0
    ELSE LET m == CHOOSE x \in M : TRUE
         IN  Term[m] + SumOver(M \ {m}, Term, unused)

C15_BetaFallbacks ==
    calc_in.fn = "beta" /\ calc_out # Unset =>
      LET f == calc_in.fund_monthly
          b == calc_in.benchmark_monthly
          M == CommonMonths(f, b)
          n == Cardinality(M)
          sf == SumOver(M, [m \in M |-> ReturnIn(f, m)], 0)
          sb == SumOver(M, [m \in M |-> ReturnIn(b, m)], 0)
          sbb == SumOver(M, [m \in M |-> ReturnIn(b, m) * ReturnIn(b, m)], 0)
          sfb == SumOver(M, [m \in M |-> ReturnIn(f, m) * ReturnIn(b, m)], 0)
          var == n * sbb - sb * sb
          cov == n * sfb - sf * sb
      IN  /\ calc_out.kind = "ratio"
          /\ calc_out.den > 0
          /\ n < 12 => calc_out = RatioOne
          /\ n >= 12 /\ var = 0 => calc_out = RatioOne
          /\ n >= 12 /\ var # 0 => calc_out.num * var = calc_out.den * cov

\* eleven common months of returns that would give a beta other than 1
C15_Witness ==
    /\ calc_in.fn = "beta"
    /\ calc_out = RatioOne
    /\ LET M == CommonMonths(calc_in.fund_monthly, calc_in.benchmark_monthly)
       IN  /\ Cardinality(M) = 11
           /\ \E m, k \in M :
                 /\ ReturnIn(calc_in.benchmark_monthly, m)
                       # ReturnIn(calc_in.benchmark_monthly, k)
                 /\ ReturnIn(calc_in.fund_monthly, m)
                       = ReturnIn(calc_in.fund_monthly, k)

(***************************************************************************)
(* C16.  calculate_capture_ratios returns an upside capture of 1 when no    *)
(* common month has a benchmark return above 0, and a downside capture of 1 *)
(* when none has one below 0 (no common month at all included); otherwise   *)
(* each is the mean fund return over those months divided by the mean       *)
(* benchmark return over them, and the divisor is never zero.               *)
(***************************************************************************)
CaptureOver(M, f, b, got) ==
    LET sf == SumOver(M, [m \in M |-> ReturnIn(f, m)], 0)
        sb == SumOver(M, [m \in M |-> ReturnIn(b, m)], 0)
    IN  /\ got.kind = "ratio"
        /\ got.den > 0
        /\ M = {} => got = RatioOne
        /\ M # {} => sb # 0 /\ got.num * sb = got.den * sf

C16_CaptureRatios ==
    calc_in.fn = "capture" /\ calc_out # Unset =>
      LET f == calc_in.fund_monthly
          b == calc_in.benchmark_monthly
          M == CommonMonths(f, b)
      IN  /\ CaptureOver({m \in M : ReturnIn(b, m) > 0}, f, b, calc_out.upside)
          /\ CaptureOver({m \in M : ReturnIn(b, m) < 0}, f, b, calc_out.downside)

\* a benchmark with flat months and down months only, and a fund that moved
C16_Witness ==
    /\ calc_in.fn = "capture"
    /\ calc_out # Unset
    /\ LET M == CommonMonths(calc_in.fund_monthly, calc_in.benchmark_monthly)
       IN  /\ \E m \in M : ReturnIn(calc_in.benchmark_monthly, m) = 0
           /\ \E m \in M : ReturnIn(calc_in.benchmark_monthly, m) < 0
           /\ \A m \in M : ReturnIn(calc_in.benchmark_monthly, m) <= 0
           /\ \E m \in M : ReturnIn(calc_in.fund_monthly, m) > 0
    /\ calc_out.upside = RatioOne
    /\ calc_out.downside # RatioOne

(***************************************************************************)
(* C17.  calculate_benchmark_outperformance returns the neutral 1/2 when no *)
(* window qualifies (the benchmark having no observation at or after the    *)
(* end of the window included), and otherwise wins / total with             *)
(* 0 <= wins <= total, so the result is in [0, 1]; a window over which the  *)
(* fund and the benchmark grew at the same rate counts in total and is not  *)
(* a win.                                                                   *)
(***************************************************************************)
\* the starts whose window qualifies, and the growth of each side over it
QualifyingStarts(f, b, w) ==
    { i \in DOMAIN f :
        /\ \E j \in DOMAIN f : f[j].date >= YearsAfter(f[i].date, w)
        /\ \E k \in DOMAIN b : b[k].date >= YearsAfter(f[i].date, w)
        /\ f[i].nav > 0
        /\ b[FirstOf(FutureOf(b, f[i].date))].nav > 0
        /\ DaysBetween(f[i].date,
               f[FirstOf(FutureOf(f, YearsAfter(f[i].date, w)))].date) >= 300 }

FundGrowth(f, w, i) ==
    [e |-> f[FirstOf(FutureOf(f, YearsAfter(f[i].date, w)))].nav, s |-> f[i].nav]

BenchGrowth(f, b, w, i) ==
    [e |-> b[FirstOf(FutureOf(b, YearsAfter(f[i].date, w)))].nav,
     s |-> b[FirstOf(FutureOf(b, f[i].date))].nav]

GrewFaster(x, y) == x.e * y.s > y.e * x.s

C17_OutperformanceFraction ==
    calc_in.fn = "outperformance" /\ calc_out # Unset =>
      LET f == calc_in.navs_df
          b == calc_in.benchmark_navs_df
          w == calc_in.window_years
          Q == QualifyingStarts(f, b, w)
          W == {i \in Q : GrewFaster(FundGrowth(f, w, i), BenchGrowth(f, b, w, i))}
      IN  /\ calc_out.value.kind = "ratio"
          /\ Q = {} => calc_out.value = Ratio(1, 2)
          /\ Q # {} => /\ calc_out.total = Cardinality(Q)
                       /\ calc_out.wins = Cardinality(W)
                       /\ calc_out.value.num * calc_out.total
                             = calc_out.value.den * calc_out.wins
          /\ 0 <= calc_out.wins /\ calc_out.wins <= calc_out.total
          /\ 0 <= calc_out.value.num /\ calc_out.value.num <= calc_out.value.den

\* the only window counted is one over which both grew at the same rate
C17_Witness ==
    /\ calc_in.fn = "outperformance"
    /\ calc_out # Unset
    /\ calc_out.total = 1
    /\ calc_out.wins = 0
    /\ LET f == calc_in.navs_df
           b == calc_in.benchmark_navs_df
           w == calc_in.window_years
       IN  \E i \in QualifyingStarts(f, b, w) :
              /\ ~GrewFaster(FundGrowth(f, w, i), BenchGrowth(f, b, w, i))
              /\ ~GrewFaster(BenchGrowth(f, b, w, i), FundGrowth(f, w, i))

\* a fund with a full window, and a benchmark that stops before its end
C17_WitnessNoBenchmark ==
    /\ calc_in.fn = "outperformance"
    /\ calc_out # Unset
    /\ calc_out.value = Ratio(1, 2)
    /\ calc_in.window_years = 1
    /\ \E i, j \in DOMAIN calc_in.navs_df :
          /\ calc_in.navs_df[j].date >= YearsAfter(calc_in.navs_df[i].date, 1)
          /\ calc_in.benchmark_navs_df # <<>>
          /\ \A k \in DOMAIN calc_in.benchmark_navs_df :
                calc_in.benchmark_navs_df[k].date
                   < YearsAfter(calc_in.navs_df[i].date, 1)

(***************************************************************************)
(* C18.  normalize_column maps a column whose values are all equal, of any  *)
(* length (one included), to 1/2 at every place, with or without invert;    *)
(* for any other column every output is in [0, 1], the minimum goes to 0    *)
(* and the maximum to 1, and with invert the output is 1 minus the output   *)
(* without it (the minimum to 1, the maximum to 0).                         *)
(***************************************************************************)
IsConstant(col) == \A i, j \in DOMAIN col : col[i] = col[j]
Least(col) == CHOOSE v \in Range(col) : \A i \in DOMAIN col : v <= col[i]
Greatest(col) == CHOOSE v \in Range(col) : \A i \in DOMAIN col : v >= col[i]

\* x = num / den as fractions
IsQuotient(x, num, den) == x.den > 0 /\ x.num * den = x.den * num

C18_NormalizeColumn ==
    calc_in.fn = "normalize" /\ calc_out # Unset =>
      LET col == calc_in.col
          out == calc_out.values
          span == Greatest(col) - Least(col)
      IN  /\ DOMAIN out = DOMAIN col
          /\ IsConstant(col) => \A i \in DOMAIN col : IsQuotient(out[i], 1, 2)
          /\ ~IsConstant(col) =>
               \A i \in DOMAIN col :
                  /\ out[i].den > 0 /\ 0 <= out[i].num /\ out[i].num <= out[i].den
                  /\ ~calc_in.invert =>
                       /\ IsQuotient(out[i], col[i] - Least(col), span)
                       /\ col[i] = Least(col) => IsQuotient(out[i], 0, 1)
                       /\ col[i] = Greatest(col) => IsQuotient(out[i], 1, 1)
                  /\ calc_in.invert =>
                       /\ IsQuotient(out[i], span - (col[i] - Least(col)), span)
                       /\ col[i] = Least(col) => IsQuotient(out[i], 1, 1)
                       /\ col[i] = Greatest(col) => IsQuotient(out[i], 0, 1)

\* an inverted column with a value strictly between its least and greatest
C18_Witness ==
    /\ calc_in.fn = "normalize"
    /\ calc_out # Unset
    /\ calc_in.invert
    /\ \E i, j, k \in DOMAIN calc_in.col :
          /\ calc_in.col[i] < calc_in.col[j] /\ calc_in.col[j] < calc_in.col[k]
          /\ calc_out.values[i].num = calc_out.values[i].den
          /\ calc_out.values[k].num = 0
          /\ 0 < calc_out.values[j].num
          /\ calc_out.values[j].num < calc_out.values[j].den

\* a column of one value
C18_WitnessSingle ==
    /\ calc_in.fn = "normalize"
    /\ calc_out # Unset
    /\ Len(calc_in.col) = 1
    /\ IsQuotient(calc_out.values[1], 1, 2)

(***************************************************************************)
(* C19.  The weights of the composite score (consistency 25, Sharpe 20,     *)
(* upside capture 15, downside capture 15, benchmark outperformance 10,     *)
(* beta stability 5, expense ratio 10, in hundredths) sum to 100, and the   *)
(* score calculate_final_score gives every row of every frame is in         *)
(* [0, 100] hundredths.                                                     *)
(***************************************************************************)
RECURSIVE WeightTotal(_)
WeightTotal(k) ==
    IF k > Len(Metrics) THEN 0 ELSE DEFAULT_WEIGHTS[Metrics[k]] + WeightTotal(k + 1)

C19_ScoreInUnitInterval ==
    /\ WeightTotal(1) = 100
    /\ DEFAULT_WEIGHTS =
          [rolling_consistency |-> 25, sharpe |-> 20, upside_capture |-> 15,
           downside_capture |-> 15, benchmark_outperf |-> 10, beta_stability |-> 5,
           ter |-> 10]
    /\ calc_in.fn = "final_score" /\ calc_out # Unset =>
          \A i \in DOMAIN calc_out.rows :
             /\ calc_out.rows[i].final_score.den > 0
             /\ 0 <= calc_out.rows[i].final_score.num
             /\ calc_out.rows[i].final_score.num
                   <= 100 * calc_out.rows[i].final_score.den

\* a frame with a row that scores 1, a row that scores 0 and one in between
C19_Witness ==
    /\ calc_in.fn = "final_score"
    /\ calc_out # Unset
    /\ \E i, j, k \in DOMAIN calc_out.rows :
          /\ IsQuotient(calc_out.rows[i].final_score, 100, 1)
          /\ IsQuotient(calc_out.rows[j].final_score, 0, 1)
          /\ IsQuotient(calc_out.rows[k].final_score, 25, 1)

(***************************************************************************)
(* C20.  The final ranking is a permutation of the rows given, in           *)
(* non-increasing order of composite score, and rows of equal score keep    *)
(* the order they had in the input.                                         *)
(***************************************************************************)
SameScore(a, b) ==
    ~FracLess(a.final_score, b.final_score) /\ ~FracLess(b.final_score, a.final_score)

IsPermutationOfInput(ranked, df) ==
    /\ Len(ranked) = Len(df)
    /\ \A i \in DOMAIN df : \E k \in DOMAIN ranked : ranked[k].row = df[i]
    /\ \A k, l \in DOMAIN ranked : ranked[k].row = ranked[l].row => k = l

NonIncreasing(ranked) ==
    \A k \in 1..(Len(ranked) - 1) :
        ~FracLess(ranked[k].final_score, ranked[k + 1].final_score)

\* schemeCode is the place the row had in the input
TiesKeepInputOrder(ranked) ==
    \A k, l \in DOMAIN ranked :
        k < l /\ SameScore(ranked[k], ranked[l])
            => ranked[k].row.schemeCode < ranked[l].row.schemeCode

C20_RankingSortedAndStable ==
    calc_in.fn = "final_score" /\ calc_out # Unset =>
       /\ IsPermutationOfInput(calc_out.rows, calc_in.df)
       /\ NonIncreasing(calc_out.rows)
       /\ TiesKeepInputOrder(calc_out.rows)

\* what the sort does give: a permutation in non-increasing order
C20_RankingSorted ==
    calc_in.fn = "final_score" /\ calc_out # Unset =>
       /\ IsPermutationOfInput(calc_out.rows, calc_in.df)
       /\ NonIncreasing(calc_out.rows)

(***************************************************************************)
(* C21.  The assets under management never enter the score: a frame that   *)
(* differs from the one scored in the aum of its rows only gets the same    *)
(* composite score for every fund and the same ranking order.               *)
(***************************************************************************)
AumValues == {0, 1000, 5000}

\* the frame df with the aum of row i replaced by aums[i]
WithAum(df, aums) ==
    [i \in DOMAIN df |->
        [schemeCode |-> df[i].schemeCode,
         rolling_consistency |-> df[i].rolling_consistency,
         sharpe |-> df[i].sharpe,
         upside_capture |-> df[i].upside_capture,
         downside_capture |-> df[i].downside_capture,
         benchmark_outperf |-> df[i].benchmark_outperf,
         beta_stability |-> df[i].beta_stability,
         ter |-> df[i].ter,
         aum |-> aums[i]]]

\* the funds of a ranking, from the first place to the last
OrderOf(ranked) == [k \in DOMAIN ranked |-> ranked[k].row.schemeCode]

C21_AumNeverEntersScore ==
    calc_in.fn = "final_score" /\ calc_out # Unset =>
       \A aums \in [DOMAIN calc_in.df -> AumValues] :
          LET other == WithAum(calc_in.df, aums)
          IN  /\ \A k \in DOMAIN calc_out.rows :
                    calc_out.rows[k].final_score
                       = Scored(other)[calc_out.rows[k].row.schemeCode].final_score
              /\ \E ranked \in calculate_final_score(other) :
                    OrderOf(ranked) = OrderOf(calc_out.rows)

\* a ranking in which funds of different aum differ in score, and two tie
C21_Witness ==
    /\ calc_in.fn = "final_score"
    /\ calc_out # Unset
    /\ \E k, l \in DOMAIN calc_out.rows :
          /\ calc_out.rows[k].row.aum < calc_out.rows[l].row.aum
          /\ FracLess(calc_out.rows[l].final_score, calc_out.rows[k].final_score)
    /\ \E k, l \in DOMAIN calc_out.rows :
          /\ calc_out.rows[k].row.aum # calc_out.rows[l].row.aum
          /\ SameScore(calc_out.rows[k], calc_out.rows[l])

(***************************************************************************)
(* Vocabulary for process_scheme alone: the observations of the answer     *)
(* that lie in the one-year window, and the first and last of their dates. *)
(***************************************************************************)
Returned == calc_in.fn = "process_scheme" /\ calc_out # Unset

WindowDates(resp, now) ==
    IF resp.kind # "ok" \/ \E i \in DOMAIN resp.data : ~resp.data[i].date.ok
    THEN {}
    ELSE { resp.data[i].date.v :
             i \in { j \in DOMAIN resp.data :
                       InWindow(resp.data[j], YearsBefore(now, 1), now) } }

Earliest(D) == CHOOSE d \in D : \A e \in D : d <= e
Latest(D) == CHOOSE d \in D : \A e \in D : d >= e

NameAccepted(name) == "idcw" \notin name /\ "income distribution" \notin name

(***************************************************************************)
(* C24.  A fund is rejected as stale exactly when its latest observation is *)
(* older than as_of minus the staleness threshold the run is configured     *)
(* with (5 days when nothing is configured); a fund whose latest            *)
(* observation is within that many days of as_of is never rejected for      *)
(* staleness.                                                               *)
(***************************************************************************)
C24_StaleByConfiguredThreshold ==
    Returned =>
      LET D == WindowDates(calc_in.resp, calc_in.as_of)
      IN  NameAccepted(calc_in.scheme.schemeName) /\ D # {} =>
             ( (calc_out.out.kind = "none" /\ calc_out.out.why = "stale")
                 <=> Latest(D) < calc_in.as_of - Days(calc_in.staleness_days) )

\* what the code does: the threshold is 5 days whatever is configured
C24_StaleByFiveDays ==
    Returned =>
      LET D == WindowDates(calc_in.resp, calc_in.as_of)
      IN  NameAccepted(calc_in.scheme.schemeName) /\ D # {} =>
             ( (calc_out.out.kind = "none" /\ calc_out.out.why = "stale")
                 <=> Latest(D) < calc_in.as_of - Days(5) )

(***************************************************************************)
(* C25.  A fund whose window is degenerate (its last date no later than its *)
(* first, as when one date only has observations in the window) never       *)
(* raises and is always rejected: compute_lumpsum_xirr returns no value     *)
(* where it would divide by zero, and process_scheme returns no row.        *)
(***************************************************************************)
DegenerateWindow ==
    LET D == WindowDates(calc_in.resp, calc_in.as_of)
    IN  /\ NameAccepted(calc_in.scheme.schemeName)
        /\ D # {}
        /\ DaysBetween(Earliest(D), Latest(D)) <= 0

C25_DegenerateWindowRejected ==
    Returned /\ DegenerateWindow =>
       /\ calc_out.out.kind = "none"
       /\ calc_out.out.why \in {"stale", "no_isin", "short"}
       /\ calc_out.xirr # Unset => calc_out.xirr = None

\* two observations of one day: the return is computed, and is no value
C25_Witness ==
    /\ Returned
    /\ DegenerateWindow
    /\ Len(calc_in.resp.data) > 1
    /\ calc_out.xirr = None
    /\ calc_out.out = [kind |-> "none", why |-> "short"]

TableOfOrderedRun ==
    IF pipeline = "lumpsum"
    THEN {LumpsumRanking(SortByCode(RowsInOrder(schemes)))}
    ELSE calculate_final_score(RowsInOrder(schemes))

C22_SameInputSameTable ==
    pc = "done" /\ table.made =>
       /\ ResultCodes = {c \in Submitted : IsScored(c)}
       /\ \A i \in DOMAIN results : results[i] = task[results[i].schemeCode].out.row
       /\ table.rows \in TableOfOrderedRun

\* what does hold: the scored rows are the same, whatever the interleaving
C22_SameInputSameRows ==
    pc = "done" /\ table.made =>
       /\ ResultCodes = {c \in Submitted : IsScored(c)}
       /\ \A i \in DOMAIN results : results[i] = task[results[i].schemeCode].out.row

(***************************************************************************)
(* C23.  For every window calculate_benchmark_outperformance accepts, the   *)
(* growth rate of the benchmark is taken over the start date and the end    *)
(* date of the fund's window: the benchmark's two prices are its prices on  *)
(* those two dates, and the time its growth is annualized over is the time  *)
(* between the two benchmark observations used.                             *)
(***************************************************************************)
C23_BenchmarkOverSameDates ==
    calc_in.fn = "outperformance" /\ calc_out # Unset =>
       \A k \in DOMAIN calc_out.windows :
          LET w == calc_out.windows[k]
          IN  /\ w.bench_dates = w.fund_dates
              /\ w.days = DaysBetween(w.bench_dates[1], w.bench_dates[2])

\* what the code does: the benchmark is read at its first observation on or
\* after the fund's start date and on or after that date plus the window,
\* and annualized over the days of the fund's window
C23_BenchmarkAtOrAfter ==
    calc_in.fn = "outperformance" /\ calc_out # Unset =>
       \A k \in DOMAIN calc_out.windows :
          LET w == calc_out.windows[k]
              b == calc_in.benchmark_navs_df
              nominal_end == YearsAfter(w.fund_dates[1], calc_in.window_years)
              AtOrAfter(d, t) ==
                  /\ d >= t
                  /\ \E j \in DOMAIN b : b[j].date = d
                  /\ \A j \in DOMAIN b : b[j].date >= t => b[j].date >= d
          IN  /\ AtOrAfter(w.bench_dates[1], w.fund_dates[1])
              /\ AtOrAfter(w.bench_dates[2], nominal_end)
              /\ w.days = DaysBetween(w.fund_dates[1], w.fund_dates[2])

(***************************************************************************)
(* C26.  fetch_all_schemes requests the pages at offsets 0, 1000, 2000, ... *)
(* (0, BatchSize, 2 * BatchSize, ... here) in that order and returns the    *)
(* pages up to and including the first with fewer entries than the page     *)
(* size, one after the other; it ends at the first short or empty page,     *)
(* requests no page after it and no offset twice.                           *)
(***************************************************************************)
\* the entries of the directory the upstream lists from offset off on
ListedAt(off) ==
    [i \in 1..Min2(BatchSize, IF Len(directory) > off THEN Len(directory) - off ELSE 0)
        |-> directory[off + i]]

C26_PagesInOrderUntilShort ==
    pipeline = "list" =>
      /\ \A k \in DOMAIN requested : requested[k] = (k - 1) * BatchSize
      /\ \A k \in 1..(Len(requested) - 1) : Len(ListedAt(requested[k])) = BatchSize
      /\ Len(requested) <= (Len(directory) \div BatchSize) + 1
      /\ pc = "list" => /\ Len(requested) = offset \div BatchSize
                        /\ all_schemes = SubSeq(directory, 1, offset)
      /\ pc = "returned" /\ ~list_failed =>
            /\ requested # <<>>
            /\ Len(ListedAt(requested[Len(requested)])) < BatchSize
            /\ all_schemes = directory

\* a full page and a short one were read, and the list returned
C26_Witness ==
    /\ pipeline = "list"
    /\ pc = "returned"
    /\ ~list_failed
    /\ Len(requested) = 2
    /\ ListedAt(requested[2]) # <<>>
    /\ Len(all_schemes) = BatchSize + Len(ListedAt(requested[2]))

\* the list ended on an empty page
C26_WitnessEmptyPage ==
    /\ pipeline = "list"
    /\ pc = "returned"
    /\ ~list_failed
    /\ Len(requested) = 2
    /\ ListedAt(requested[2]) = <<>>

(***************************************************************************)
(* C27.  The benchmark (its daily prices and the monthly returns derived    *)
(* from them) is built once before the funds are processed and no per-fund  *)
(* evaluation changes it: after any number of calls of calculate_beta,      *)
(* calculate_capture_ratios and calculate_benchmark_outperformance its      *)
(* contents and their order are those it was built with.                    *)
(***************************************************************************)
C27_BenchmarkReadOnly ==
    pipeline = "evaluate" =>
       /\ benchmark = calc_in.constructed
       /\ benchmark.navs.index = "range"
       /\ benchmark \in EvalBenchmarks

\* each of the three functions has been called on the benchmark
C27_Witness ==
    /\ pipeline = "evaluate"
    /\ {"beta", "capture", "outperformance"} \subseteq Range(calc_out.calls)
    /\ calc_out.last # Unset
    /\ benchmark = calc_in.constructed

(***************************************************************************)
(* C29.  Screener: the funds counted as processed never exceed fund_limit   *)
(* and at most 10 * fund_limit candidates are ever fetched, so the table    *)
(* has at most fund_limit rows; a fund of the category with fewer than 12   *)
(* monthly returns takes one unit of the budget and gives no row, a fund    *)
(* without data or of another category takes none.                          *)
(***************************************************************************)
Fetched == {c \in Codes : fetches[c] > 0}

\* the funds whose loop body has run to its end, by how it ended
EndedAs(why) ==
    {c \in Codes : task[c].st = "done" /\ task[c].out.kind = "none"
                     /\ task[c].out.why = why}

TakesNoBudget ==
    EndedAs("no_data") \cup EndedAs("fetch_error") \cup EndedAs("short_history")
       \cup EndedAs("category")

C29_WitnessNoBudget ==
    /\ pipeline = "screener"
    /\ scheme_limit = 1
    /\ pc = "done"
    /\ EndedAs("category") # {}
    /\ Len(table.rows) = 1

\* the over-fetch cut the candidates short
C29_WitnessCut ==
    /\ pipeline = "screener"
    /\ pc = "loop"
    /\ Len(schemes) < Len(SelectSeq(all_schemes, LAMBDA s : IsCandidate(s)))

(***************************************************************************)
(* C30.  Lump-sum pipeline: the results list is written by the thread of    *)
(* main only, never by a worker.  Under every interleaving a row is in the  *)
(* list only once main has taken the result of its future; a submitted      *)
(* scheme gives at most one row, no row is lost or twice in the list, and   *)
(* the rows collected are never more than the schemes submitted, which are  *)
(* never more than the configured scheme limit.                             *)
(***************************************************************************)
\* the futures main has taken the result of, and those among them with a row
Taken == {c \in Submitted : task[c].st = "collected"}
TakenWithRow == {c \in Taken : task[c].out.kind = "row"}

=============================================================================
